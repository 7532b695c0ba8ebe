----------------------------- MODULE MCWebhook -----------------------------
(* Small instances of Webhook for TLC. *)
EXTENDS Webhook, TLC

Symmetry == Permutations(Handlers) \cup Permutations(Attempts)
=============================================================================
