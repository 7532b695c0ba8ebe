------------------------------- MODULE MCSync -------------------------------
(* Instances of Sync for TLC.                                              *)
EXTENDS Sync, TLC

Symmetry == Permutations(Handlers)
=============================================================================
