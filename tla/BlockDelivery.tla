--------------------------- MODULE BlockDelivery ---------------------------
(***************************************************************************)
(* What the pool may rely on once a block is found: the block is taken into *)
(* safe keeping before its sender is told so, and leaves it only into the   *)
(* block tables, under its key and for good, or by being dropped as         *)
(* invalid.  Frames may be delivered more than once.  PendingBlocks is the  *)
(* implementation.                                                          *)
(***************************************************************************)
CONSTANTS
    Blocks,
    Key       \* the key a block is recorded under, by block

VARIABLES
    place,    \* "nowhere", "queue", "table" or "dropped", by block
    told      \* the blocks whose sender was told that they are safe

vars == <<place, told>>

Init ==
    /\ place = [b \in Blocks |-> "nowhere"]
    /\ told = {}

(* A first or repeated delivery.  A recorded block stays recorded. *)
Keep(b) ==
    /\ place' = [place EXCEPT ![b] = IF @ = "table" THEN @ ELSE "queue"]
    /\ told' \in {told, told \cup {b}}

(* One block of the queue brings its key into the tables. *)
Record(b) ==
    /\ place[b] = "queue"
    /\ place' = [o \in Blocks |-> IF Key[o] = Key[b] THEN "table" ELSE place[o]]
    /\ UNCHANGED told

Drop(b) ==
    /\ place[b] = "queue"
    /\ place' = [place EXCEPT ![b] = "dropped"]
    /\ UNCHANGED told

Next == \E b \in Blocks : Keep(b) \/ Record(b) \/ Drop(b)

Spec == Init /\ [][Next]_vars
=============================================================================
