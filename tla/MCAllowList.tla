----------------------------- MODULE MCAllowList -----------------------------
(* Instances of AllowList for TLC: the bounds are in the .cfg files. *)
EXTENDS AllowList
=============================================================================
