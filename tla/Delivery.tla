------------------------------ MODULE Delivery ------------------------------
(***************************************************************************)
(* What the pipeline between the receiver's push and the ClickHouse table  *)
(* promises, free of lists, workers and scripts: at-least-once delivery,   *)
(* as src/backend/app/queue/redis_queue.py:5-15 and "The log-loss          *)
(* guarantee" of src/docs/architecture.md put it.  A record the buffer has *)
(* taken stays held until it is delivered; only what has been delivered,   *)
(* or what nobody can decode, is ever forgotten.                           *)
(***************************************************************************)
CONSTANTS Record,        \* the log records
          Undecodable    \* those the worker cannot decode, and skips

VARIABLES accepted,      \* every record the buffer ever took
          held,          \* the records it still holds somewhere
          delivered      \* the records that are rows of the table

vars == <<accepted, held, delivered>>

Init == /\ accepted = {}
        /\ held = {}
        /\ delivered = {}

(* A push appends records that were never there before. *)
Accept(S) == /\ S \cap accepted = {}
             /\ accepted' = accepted \cup S
             /\ held' = held \cup S
             /\ UNCHANGED delivered

(* An insert commits.  Its rows are held, or were delivered already: the   *)
(* latter is a duplicate row, which at-least-once delivery allows.         *)
Deliver(S) == /\ S \subseteq (held \cup delivered) \ Undecodable
              /\ delivered' = delivered \cup S
              /\ UNCHANGED <<accepted, held>>

(* An acknowledgement deletes records the table has, or that are no rows.  *)
Forget(S) == /\ S \subseteq held
             /\ S \subseteq delivered \cup Undecodable
             /\ held' = held \ S
             /\ UNCHANGED <<accepted, delivered>>

Next == \E S \in SUBSET Record : Accept(S) \/ Deliver(S) \/ Forget(S)

Spec == Init /\ [][Next]_vars

-----------------------------------------------------------------------------
(* What is delivered, and what is held, was accepted. *)
OnlyAccepted == held \cup delivered \subseteq accepted

(* Nothing that can be a row is lost: it is held or it is in the table.    *)
NothingLost == accepted \ Undecodable \subseteq held \cup delivered

=============================================================================
