--------------------------- MODULE MCQueueScripts ---------------------------
(* The scripts on every pair of lists up to MaxLen, with a small chunk. *)
EXTENDS QueueScripts
=============================================================================
