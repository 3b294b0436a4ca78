----------------------------- MODULE MCSettings -----------------------------
(* Instances of Settings for TLC. *)
EXTENDS Settings, TLC

(* Requests differ in nothing but their names. *)
RequestSymmetry == Permutations(Request)
=============================================================================
