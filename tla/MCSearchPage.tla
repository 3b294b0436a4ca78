---------------------------- MODULE MCSearchPage ----------------------------
(* Instances of SearchPage for TLC: the bounds are in the .cfg files. *)
EXTENDS SearchPage

(* Of the rows 1 to 3 the older two have one key. *)
TwoShareAKey == <<1, 1, 2>>
=============================================================================
