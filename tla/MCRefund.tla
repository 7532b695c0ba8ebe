------------------------------ MODULE MCRefund ------------------------------
(* Small instances of Refund for TLC. *)
EXTENDS Refund, TLC

CallSymmetry == Permutations(Calls) \cup Permutations(Keys)
=============================================================================
