--------------------------- MODULE MCPendingBlocks ---------------------------
(* A main block whose height a rival contests, and two alt blocks of one port *)
(* found in the same second.                                                  *)
EXTENDS PendingBlocks

MCId == [b \in Blocks |-> 1]
OnePort == [b \in Blocks |-> IF b \in MainBlocks THEN "main" ELSE "alt"]
==============================================================================
