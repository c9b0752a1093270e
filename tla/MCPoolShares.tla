----------------------------- MODULE MCPoolShares -----------------------------
(* The sessions of one wallet. *)
EXTENDS PoolShares, TLC

CONSTANTS m1, m2, w1

MCWalletOf == [m \in Sessions |-> w1]
AllEarned == [m \in Sessions |-> 1]
AllStandard == [m \in Sessions |-> {"standard"}]
OneSpecial == [m \in Sessions |-> IF m = m1 THEN {"cycle", "kawpow", "ethash", "pearl"}
                                            ELSE {"standard"}]
WithChild == {{"job"}, {"job", "child"}}
WithBlocks == {{}, {"job"}, {"job", "main"}}
MCSymmetry == Permutations({m1, m2})
=============================================================================
