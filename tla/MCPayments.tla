---------------------------- MODULE MCPayments ----------------------------
(* Small instances of Payments for TLC.                                    *)
EXTENDS Payments, TLC

\* Runtimes are interchangeable.
Symmetry == Permutations(Runtimes)

=============================================================================
