---------------------------- MODULE MCPoolTemplates ----------------------------
(***************************************************************************)
(* The instances of PoolTemplates (one worker, the main coin and one alt   *)
(* coin) and of MinerJobs (one miner of such a worker), explored side by   *)
(* side: a behaviour is one of the first or one of the second, and stays   *)
(* so.  Nothing is lost by not interleaving them, for they share no        *)
(* variable and MinerJobs takes templates and hash factors in any order.   *)
(***************************************************************************)
EXTENDS PoolTemplates, MinerJobs

VARIABLE part \* "templates" or "jobs"

MCInit == Init /\ JobsInit /\ part \in {"templates", "jobs"}

MCNext ==
    \/ part = "templates" /\ Next /\ UNCHANGED <<jobVars, part>>
    \/ part = "jobs" /\ JobsNext /\ UNCHANGED <<vars, part>>

MCSpec == MCInit /\ [][MCNext]_<<vars, jobVars, part>>
===============================================================================
