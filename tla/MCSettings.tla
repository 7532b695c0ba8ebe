----------------------------- MODULE MCSettings -----------------------------
(* Small instances of Settings for TLC. *)
EXTENDS Settings

MCRawConfigs == {[rate |-> 1000, type |-> "inter"], [rate |-> 0, type |-> "inter"]}
=============================================================================
