------------------------------- MODULE Metrics -------------------------------
(***************************************************************************)
(* The counters of one process: kept in a dict, flushed to a hash in Redis *)
(* every two seconds, and once more when the process stops                 *)
(* (src/backend/app/metrics.py:43-86).                                     *)
(*                                                                         *)
(* A dict is a sequence of names with their values, in the order in which  *)
(* the names were inserted: a flush sends them in that order, without      *)
(* MULTI, so that one that fails may have been executed up to any of them. *)
(***************************************************************************)
EXTENDS Integers, Sequences, SequencesExt

CONSTANTS Counter,      \* the names
          MaxFailures   \* bound on the flushes that fail

ASSUME MetricsAssumption == MaxFailures \in Nat

VARIABLES counts,     \* _counts
          pending,    \* what a flush has taken from it
          task,       \* the flush task, then stop()
          hash,       \* nls:metrics in Redis
          failures,   \* flushes that failed
          unsent      \* stop() has cancelled a flush, or the last one failed

metricsVars == <<counts, pending, task, hash, failures, unsent>>

Value(c, name) == LET i == SelectInSeq(c, LAMBDA e : e.name = name)
                  IN IF i = 0 THEN 0 ELSE c[i].value

(* incr *)
Incr(c, name, value) ==
  LET i == SelectInSeq(c, LAMBDA e : e.name = name)
  IN IF i = 0 THEN Append(c, [name |-> name, value |-> value])
     ELSE [c EXCEPT ![i].value = @ + value]

(* HINCRBY for the first n names of c. *)
Executed(c, n) == [name \in Counter |-> hash[name] + Value(SubSeq(c, 1, n), name)]

InitMetrics == /\ counts = <<>> /\ pending = <<>>
               /\ task = "sleeping"
               /\ hash = [name \in Counter |-> 0]
               /\ failures = 0 /\ unsent = FALSE

(* flush() up to the await; nothing to do if there are no counts. *)
Flush == /\ task = "sleeping"
         /\ counts # <<>>
         /\ pending' = counts /\ counts' = <<>>
         /\ task' = "flushing"
         /\ UNCHANGED <<hash, failures, unsent>>

(* Mutation: the task does not go round again. *)
FlushOkOnce == /\ task = "flushing"
               /\ hash' = Executed(pending, Len(pending))
               /\ pending' = <<>>
               /\ UNCHANGED <<counts, task, failures, unsent>>

FlushOk == /\ task = "flushing"
           /\ hash' = Executed(pending, Len(pending))
           /\ pending' = <<>>
           /\ task' = "sleeping"
           /\ UNCHANGED <<counts, failures, unsent>>

(* Mutation: the taken counts replace those of the meantime. *)
FoldBackOver(c) == c

(* The deltas are added to what was counted meanwhile. *)
FoldBack(c) == FoldLeft(LAMBDA acc, e : Incr(acc, e.name, e.value), counts, c)

FlushFails == /\ task = "flushing"
              /\ failures < MaxFailures
              /\ failures' = failures + 1
              /\ \E n \in 0..Len(pending) : hash' = Executed(pending, n)
              /\ counts' = FoldBack(pending)
              /\ pending' = <<>>
              /\ task' = "sleeping"
              /\ UNCHANGED unsent

(* Mutation: the counts are not flushed at the end. *)
StopOnly == /\ task \in {"sleeping", "flushing"}
            /\ \E n \in 0..Len(pending) : hash' = Executed(pending, n)
            /\ unsent' = (task = "flushing")
            /\ pending' = <<>>
            /\ task' = "stopped"
            /\ UNCHANGED <<counts, failures>>

(* stop() up to the last flush's await.  A flush that is cancelled may     *)
(* have been executed, up to any name; CancelledError is no Exception, so  *)
(* its deltas are not folded back.                                         *)
Stop == /\ task \in {"sleeping", "flushing"}
        /\ \E n \in 0..Len(pending) : hash' = Executed(pending, n)
        /\ unsent' = (task = "flushing")
        /\ pending' = counts /\ counts' = <<>>
        /\ task' = IF counts = <<>> THEN "stopped" ELSE "last"
        /\ UNCHANGED failures

LastFlush == /\ task = "last"
             /\ \/ /\ hash' = Executed(pending, Len(pending))
                   /\ UNCHANGED <<counts, failures, unsent>>
                \/ /\ failures < MaxFailures
                   /\ failures' = failures + 1
                   /\ \E n \in 0..Len(pending) : hash' = Executed(pending, n)
                   /\ counts' = FoldBack(pending)
                   /\ unsent' = TRUE
             /\ pending' = <<>>
             /\ task' = "stopped"
=============================================================================
