------------------------------- MODULE MCApi -------------------------------
(* Instances of Api for TLC: the bounds are in the .cfg file. *)
EXTENDS Api
=============================================================================
