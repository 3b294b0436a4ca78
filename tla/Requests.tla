------------------------------ MODULE Requests ------------------------------
(* The requests of the web API that the modules about it have in common.   *)
EXTENDS FiniteSets

CONSTANT Request    \* requests that may be under way at the same time

ASSUME RequestAssumption == IsFiniteSet(Request)
=============================================================================
