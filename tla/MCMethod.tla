------------------------------ MODULE MCMethod ------------------------------
(* Instances of Method for TLC.                                            *)
EXTENDS Method, TLC

Symmetry == Permutations(Handlers) \cup Permutations(Intents)
=============================================================================
