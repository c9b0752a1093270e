--------------------------- MODULE MCBlockManager ---------------------------
(* Instances of BlockManager: a main block and up to two alt blocks, the      *)
(* second anchored one height later, in a round with the first or not.        *)
EXTENDS BlockManager

MCHeight == [b \in Blocks |-> IF b = 12 THEN 2 ELSE 1]
MCReward == [b \in Blocks |-> 3]
=============================================================================
