---------------------------- MODULE MCAccounting ----------------------------
(* Instances of Accounting for TLC. *)
EXTENDS Accounting

Names == {"RECEIVED", "UNKNOWN_ROUTER", "PARSED", "PARSER_ERRORS"}

(* A plain line, one with a count and a carriage return, and one that is   *)
(* longer than MaxLine.                                                    *)
Forms == {[size |-> 1, counted |-> FALSE, cr |-> FALSE],
          [size |-> 1, counted |-> TRUE, cr |-> TRUE],
          [size |-> 9, counted |-> FALSE, cr |-> FALSE]}
=============================================================================
