-------------------------- MODULE ShareRetention --------------------------
(***************************************************************************)
(* How long shares are kept.  The payout of a block reads the PPLNS window: *)
(* the shares from the block's height downwards, until Multi times the      *)
(* difficulty is counted (lib/block_manager.js).  Another process, the long *)
(* runner, deletes old shares every four hours (cleanShareDB in             *)
(* lib/common/local_comms.js): it reads the oldest block that still waits   *)
(* for its window, asks the daemon twice, counts twice the window below     *)
(* that block and deletes every lower height, oldest first, in batches.     *)
(* Meanwhile the share receiver stores shares and records found blocks, and *)
(* the block manager computes windows: three processes on one database.     *)
(*                                                                         *)
(* Volume is counted in units of difficulty.  What is stored at a height is *)
(* never forgotten by the model (vol); gone says which heights the cleaner  *)
(* has deleted, so the window read and the window owed can be compared.     *)
(***************************************************************************)
EXTENDS Integers, FiniteSets, FiniteSetsExt, Functions

CONSTANTS
  MaxHeight,    \* bound: heights of the main chain
  MaxVol,       \* bound: volume stored at one height
  Diffs,        \* difficulties the chain takes
  Multi,        \* config.pplns.shareMulti
  Round,        \* config.payout.anchorRound
  MainDelay,    \* BLOCK_HASH_CONFIRM_DELAY
  AltDelay,     \* ALTBLOCK_PRECALC_DELAY
  MainBlocks,   \* blocks the pool may find on the main chain
  AltBlocks,    \* blocks it may find on the other chains
  Retries,      \* CLEAN_SHARE_BLOCK_HEADER_RETRIES
  Batch,        \* heights deleted in one write transaction
  BlockCleaner, \* config.general.blockCleaner
  Late,         \* bound on Unseen, see Timely
  MaxFaults     \* bound: failed requests and crashes

ASSUME SizeAssumption ==
  /\ {MaxHeight, Multi, Round, Retries, Batch} \subseteq Nat \ {0}
  /\ {MaxVol, MainDelay, AltDelay, Late, MaxFaults} \subseteq Nat
  /\ Diffs \subseteq Nat \ {0} /\ Diffs # {} /\ IsFiniteSet(Diffs)
  /\ Round <= MaxHeight
  /\ MainBlocks \cap AltBlocks = {}

(* The cleaner counts two windows of its difficulty, the payout needs one   *)
(* of another: the difference is what may lie unseen above the payout.      *)
ASSUME SlackAssumption == Late + Multi * Max(Diffs) <= 2 * Multi * Min(Diffs)

VARIABLES
  tip,      \* height of the daemon's last block
  diff,     \* difficulty of each height
  vol,      \* volume ever stored at each height
  gone,     \* heights whose shares the cleaner deleted
  blocks,   \* the blocks the pool found
  cl,       \* the cleaner of the long runner
  faults

vars == <<tip, diff, vol, gone, blocks, cl, faults>>

Heights == 1..MaxHeight
Blocks == MainBlocks \cup AltBlocks
NoHeight == 0
Idle == [st |-> "idle", oldest |-> NoHeight, d |-> 0, tries |-> 0, todo |-> {}]

Total(V, lo, hi) == SumFunctionOnSet(V, {k \in Heights : lo <= k /\ k <= hi})
Stored == [k \in Heights |-> IF k \in gone THEN 0 ELSE vol[k]]

(* A block's height, and the height its payout starts from: the anchor of   *)
(* an altblock is rounded down to a multiple of anchorRound.                *)
PayFrom(b) ==
  IF b \in MainBlocks THEN blocks[b].h ELSE blocks[b].h - (blocks[b].h % Round)
PayNeed(b) == Multi * diff[PayFrom(b)]

(* collectPplnsSharePayments over the shares V: newest first, stopping when *)
(* need is counted, the last share trimmed.                                 *)
Window(V, from, need) ==
  [k \in Heights |->
     IF k > from THEN 0
     ELSE Min({V[k], Max({0, need - Total(V, k + 1, from)})})]

(* getOldestLockedBlockHeight. *)
Locked == {b \in Blocks : blocks[b].st = "locked"}
Oldest == IF Locked = {} THEN NoHeight ELSE Min({blocks[b].h : b \in Locked})

(* scanShares: every height with shares below the one at which the count    *)
(* reaches need; the scan starts just below top.                            *)
Doomed(top, need) ==
  {k \in Heights : k < top /\ Stored[k] > 0 /\ Total(Stored, k + 1, top - 1) >= need}

(***************************************************************************)
(* A block the cleaner does not know of: found and not recorded yet, or     *)
(* recorded after this cleanup read the oldest locked height.  Unseen is    *)
(* the volume the cleaner may count that the payout does not: above the     *)
(* payout height, up to the place the cleaner starts from.                  *)
(***************************************************************************)
Overlooked(b) ==
  \/ blocks[b].st = "found"
  \/ /\ blocks[b].st = "locked"
     /\ cl.st \in {"ask", "top"}
     /\ cl.oldest = NoHeight \/ cl.oldest > blocks[b].h
Unseen(b) ==
  Total(vol, PayFrom(b) + 1, IF Overlooked(b) THEN tip ELSE blocks[b].h - 1)

(* The environment's pace: a block is recorded and a cleanup gets its       *)
(* answer before more than Late is mined, and a round of anchors holds no   *)
(* more than that either.                                                   *)
Timely == \A b \in Blocks : blocks[b].st \in {"found", "locked"} => Unseen(b) <= Late

Init ==
  /\ tip = Round
  /\ diff \in {d \in [Heights -> Diffs] : \A k \in Heights : k < Round => d[k] = Max(Diffs)}
  /\ vol = [k \in Heights |-> IF k <= Round THEN MaxVol ELSE 0]
  /\ gone = {}
  /\ blocks = [b \in Blocks |-> [st |-> "none", h |-> NoHeight]]
  /\ cl = Idle
  /\ faults = 0

TypeOK ==
  /\ tip \in Heights
  /\ diff \in [Heights -> Diffs]
  /\ vol \in [Heights -> 0..MaxVol]
  /\ gone \subseteq Heights
  /\ blocks \in [Blocks -> [st : {"none", "found", "locked", "ready"}, h : Heights \cup {NoHeight}]]
  /\ cl \in [st : {"idle", "ask", "top", "delete"}, oldest : Heights \cup {NoHeight},
             d : Diffs \cup {0}, tries : 0..Retries, todo : SUBSET Heights]
  /\ faults \in 0..MaxFaults

(* ------------------------- chain, pool, receiver ------------------------ *)

(* A share of the height being mined, or of the one just finished. *)
AddShare(k) ==
  /\ k \in {tip, tip + 1} \cap Heights
  /\ vol[k] < MaxVol
  /\ vol' = [vol EXCEPT ![k] = @ + 1]
  /\ UNCHANGED <<tip, diff, gone, blocks, cl, faults>>
  /\ Timely'

NewBlock ==
  /\ tip < MaxHeight
  /\ tip' = tip + 1
  /\ UNCHANGED <<diff, vol, gone, blocks, cl, faults>>
  /\ Timely'

(* The pool finds a block at the height, or under the anchor, being mined. *)
FindMain(b) ==
  /\ b \in MainBlocks
  /\ blocks[b].st = "none" /\ tip < MaxHeight
  /\ tip' = tip + 1
  /\ blocks' = [blocks EXCEPT ![b] = [st |-> "found", h |-> tip + 1]]
  /\ UNCHANGED <<diff, vol, gone, cl, faults>>
  /\ Timely'

FindAlt(b) ==
  /\ b \in AltBlocks
  /\ blocks[b].st = "none" /\ tip < MaxHeight
  /\ blocks' = [blocks EXCEPT ![b] = [st |-> "found", h |-> tip + 1]]
  /\ UNCHANGED <<tip, diff, vol, gone, cl, faults>>
  /\ Timely'

(* The receiver stores the block's record (see PendingBlocks). *)
Record(b) ==
  /\ blocks[b].st = "found"
  /\ blocks' = [blocks EXCEPT ![b].st = "locked"]
  /\ UNCHANGED <<tip, diff, vol, gone, cl, faults>>

(* ---------------------------- block manager ----------------------------- *)

(***************************************************************************)
(* One pass over a locked block, deep enough: the window is read in one     *)
(* read transaction.  When it holds nothing, it is read again from the top; *)
(* when that holds nothing either, the block waits.  The altblocks of one   *)
(* rounded anchor are paid from one window.                                 *)
(***************************************************************************)
Deep(b) == tip - blocks[b].h > IF b \in MainBlocks THEN MainDelay ELSE AltDelay
SameAnchor(b) ==
  IF b \in MainBlocks THEN {b}
  ELSE {c \in Locked \cap AltBlocks : PayFrom(c) = PayFrom(b) /\ Deep(c)}
Payable(b) == \E from \in {PayFrom(b), tip} :
                \E k \in Heights : Window(Stored, from, PayNeed(b))[k] > 0

PreCalc(b) ==
  /\ b \in Locked /\ Deep(b)
  /\ Payable(b)
  /\ blocks' = [c \in Blocks |->
                  IF c \in SameAnchor(b) THEN [blocks[c] EXCEPT !.st = "ready"] ELSE blocks[c]]
  /\ UNCHANGED <<tip, diff, vol, gone, cl, faults>>

(* ------------------------------ the cleaner ----------------------------- *)

(* With a locked block the cleaner asks for its header, without one only    *)
(* for the last header.  A running cleanup refuses a second one.            *)
StartClean ==
  /\ cl.st = "idle"
  /\ cl' = [Idle EXCEPT !.st = IF Oldest = NoHeight THEN "top" ELSE "ask", !.oldest = Oldest]
  /\ UNCHANGED <<tip, diff, vol, gone, blocks, faults>>

CleanRefused ==
  /\ cl.st # "idle"
  /\ UNCHANGED vars

AbortKeepsFlag == [cl EXCEPT !.st = "latched"]
Abort == Idle

(* The daemon has no header for the anchor being mined: the cleaner retries *)
(* as after any other failure.                                              *)
HeaderByID ==
  /\ cl.st = "ask" /\ cl.oldest <= tip
  /\ cl' = [cl EXCEPT !.st = "top", !.d = diff[cl.oldest]]
  /\ UNCHANGED <<tip, diff, vol, gone, blocks, faults>>

Retry == cl' = IF cl.tries + 1 >= Retries THEN Abort ELSE [cl EXCEPT !.tries = @ + 1]

HeaderNotThere ==
  /\ cl.st = "ask" /\ cl.oldest > tip
  /\ Retry
  /\ UNCHANGED <<tip, diff, vol, gone, blocks, faults>>

HeaderByIDFails ==
  /\ cl.st = "ask" /\ faults < MaxFaults
  /\ Retry
  /\ faults' = faults + 1
  /\ UNCHANGED <<tip, diff, vol, gone, blocks>>

(* The last header: scan in one read transaction, then the deletes begin. *)
CleanTop == IF cl.oldest = NoHeight THEN tip ELSE cl.oldest
CleanNeedSingle == Multi * (IF cl.oldest = NoHeight THEN diff[tip] ELSE cl.d)
CleanNeed == 2 * Multi * (IF cl.oldest = NoHeight THEN diff[tip] ELSE cl.d)

LastHeader ==
  /\ cl.st = "top"
  /\ LET todo == IF BlockCleaner THEN Doomed(CleanTop, CleanNeed) ELSE {}
     IN  cl' = IF todo = {} THEN Idle ELSE [Idle EXCEPT !.st = "delete", !.todo = todo]
  /\ UNCHANGED <<tip, diff, vol, gone, blocks, faults>>

LastHeaderFails ==
  /\ cl.st = "top" /\ faults < MaxFaults
  /\ cl' = Abort
  /\ faults' = faults + 1
  /\ UNCHANGED <<tip, diff, vol, gone, blocks>>

(* The lowest heights of the list go first, Batch of them at a time. *)
Lowest == {k \in cl.todo : Cardinality({j \in cl.todo : j < k}) < Batch}

DeleteBatch ==
  /\ cl.st = "delete"
  /\ gone' = gone \cup Lowest
  /\ cl' = IF cl.todo = Lowest THEN Idle ELSE [cl EXCEPT !.todo = @ \ Lowest]
  /\ UNCHANGED <<tip, diff, vol, blocks, faults>>

(* The long runner dies; a committed batch stays deleted. *)
LongRunnerCrash ==
  /\ cl.st # "idle" /\ faults < MaxFaults
  /\ cl' = Idle
  /\ faults' = faults + 1
  /\ UNCHANGED <<tip, diff, vol, gone, blocks>>

Cleaning == StartClean \/ HeaderByID \/ HeaderNotThere \/ LastHeader \/ DeleteBatch

Next ==
  \/ \E k \in Heights : AddShare(k)
  \/ NewBlock
  \/ \E b \in Blocks : FindMain(b) \/ FindAlt(b) \/ Record(b) \/ PreCalc(b)
  \/ Cleaning \/ CleanRefused
  \/ HeaderByIDFails \/ LastHeaderFails \/ LongRunnerCrash

(* The long runner starts a cleanup every four hours and the daemon answers *)
(* in the end.                                                              *)
Spec == Init /\ [][Next]_vars /\ WF_vars(Cleaning)

(* ------------------------------ properties ------------------------------ *)

(***************************************************************************)
(* A recorded block finds its window: what the block manager reads for it   *)
(* is what it would read had nothing ever been deleted, whatever the        *)
(* cleaner decided before it knew of the block, from another difficulty, or *)
(* left half done (collectPplnsSharePayments against cleanShareDB).         *)
(***************************************************************************)
WindowIsWhole ==
  \A b \in Locked : Window(Stored, PayFrom(b), PayNeed(b)) = Window(vol, PayFrom(b), PayNeed(b))

(***************************************************************************)
(* A failed, refused or interrupted cleanup does not keep the next ones     *)
(* from running: once nothing new is mined, the heights no window needs are *)
(* deleted, unless a block still waits for the chain to reach its anchor    *)
(* (cleanShareInProgress, abortCleanup).                                    *)
(***************************************************************************)
Pruned ==
  LET top  == IF Oldest = NoHeight THEN tip ELSE Oldest
  IN  Oldest > tip \/ Doomed(top, 2 * Multi * diff[top]) = {}
EventuallyPruned == <>[]Pruned
============================================================================
