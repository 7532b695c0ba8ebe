----------------------------- MODULE MCPayment -----------------------------
(* Small instances of Payment for TLC. *)
EXTENDS Payment, TLC

VerifierSymmetry == Permutations(Verifiers)
=============================================================================
