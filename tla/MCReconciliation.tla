-------------------------- MODULE MCReconciliation --------------------------
(* Instances of Reconciliation for TLC.                                    *)
EXTENDS Reconciliation, TLC

Symmetry == Permutations(Runs) \cup Permutations(Transactions)
=============================================================================
