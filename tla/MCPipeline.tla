----------------------------- MODULE MCPipeline -----------------------------
(* Instances of Pipeline for TLC: the bounds are in the .cfg file. *)
EXTENDS Pipeline
=============================================================================
