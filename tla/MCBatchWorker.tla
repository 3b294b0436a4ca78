---------------------------- MODULE MCBatchWorker ----------------------------
(* Instances of BatchWorker for TLC: the bounds are in the .cfg files. *)
EXTENDS BatchWorker
==============================================================================
