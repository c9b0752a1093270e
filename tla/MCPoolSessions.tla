---------------------------- MODULE MCPoolSessions ----------------------------
(* Two connections from one subnet, one of them over the loopback address; one *)
(* wallet, one extranonce. *)
EXTENDS PoolSessions, TLC

CONSTANTS c1, c2, i1, lo, w1

MCSubnetOf == [i \in Ips |-> "net"]
ConnSymmetry == Permutations(Conns)
===============================================================================
