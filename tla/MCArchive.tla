------------------------------ MODULE MCArchive ------------------------------
(* Instances of Archive for TLC: December of one year to February of the    *)
(* next, each month in two halves.                                          *)
EXTENDS Archive
=============================================================================
