----------------------------- MODULE MCRenewal -----------------------------
(* Small instances of Renewal for TLC. *)
EXTENDS Renewal, TLC

WorkerSymmetry == Permutations(Workers)
=============================================================================
