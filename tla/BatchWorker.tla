----------------------------- MODULE BatchWorker -----------------------------
(***************************************************************************)
(* The path of a log record from the shared Redis list to the ClickHouse   *)
(* table: the batch workers (src/backend/app/services/worker.py), the      *)
(* Redis scripts they call (src/backend/app/queue/redis_queue.py) and the  *)
(* orphan recovery of the daily maintenance run                            *)
(* (src/backend/app/services/maintenance.py:119-162).                      *)
(*                                                                         *)
(* A worker id, not a process, is an element of Worker: it names one       *)
(* in-flight list in Redis.  A process of that id is up when pc[w] is not  *)
(* "down".  The state of a process is lost when it goes down; the queue,   *)
(* the in-flight lists and the table stay.  Records are numbered in the    *)
(* order the receiver pushes them.                                         *)
(*                                                                         *)
(* An await on Redis or ClickHouse ends in a reply or in an exception; an  *)
(* exception tells the worker nothing about whether the command was        *)
(* executed, so each failing action chooses.  A command that failed        *)
(* without being executed, and whose failure is only logged, changes       *)
(* nothing and is a stuttering step.                                       *)
(***************************************************************************)
EXTENDS Integers, Sequences, FiniteSets, Functions

CONSTANTS NumRecords,    \* records that arrive: the bound on a counter
          Undecodable,   \* records LogQueue.decode returns None for
          PushBatch,     \* largest batch of one RPUSH
          BatchSize,     \* clickhouse.batch_size
          Worker,        \* worker ids
          LocalIds,      \* ids of the form <this host>-<pid>
          ForeignPids,   \* of these, ids whose pid another program may hold
          MaxUp,         \* worker processes that run at the same time
          Faults         \* the failures that may happen

Record == 1..NumRecords

FaultKind == {"redis",   \* ack, release or recovery raises
              "insert",  \* the insert raises
              "kill"}    \* the process is killed

ASSUME ConstantsAssumption ==
         /\ NumRecords \in Nat
         /\ Undecodable \subseteq Record
         /\ PushBatch \in Nat \ {0}
         /\ BatchSize \in Nat \ {0}
         /\ LocalIds \subseteq Worker
         /\ ForeignPids \subseteq LocalIds
         /\ MaxUp \in Nat \ {0}
         /\ Faults \subseteq FaultKind

VARIABLES
  arrived,   \* number of records pushed so far
  queue,     \* the list nls:queue
  inflight,  \* inflight[w]: the list nls:inflight:<w>
  stored,    \* records that are rows of the table
  dup,       \* records that are rows more than once
  window,    \* records whose insert takes effect, but not its ack
  pc,        \* where run() is
  batch,     \* the claimed payloads, a local of _write_with_retry
  stop,      \* the asyncio.Event _stop
  todo,      \* in-flight keys the maintenance scan has yet to visit
  live       \* the result of _live_worker_ids()

redisVars == <<queue, inflight>>
tableVars == <<stored, dup>>
workerVars == <<pc, batch, stop>>
maintVars == <<todo, live>>
vars == <<arrived, queue, inflight, stored, dup, window, pc, batch, stop, todo, live>>

-----------------------------------------------------------------------------
(* LRANGE 0 n-1 and LTRIM of the claim script, for a list of any length. *)
Least(a, b) == IF a <= b THEN a ELSE b
FirstN(q, n) == SubSeq(q, 1, Least(n, Len(q)))

(* Mutation: LTRIM key count-1 -1, one entry stays. *)
AfterNShort(q, n) == SubSeq(q, Least(n, Len(q)), Len(q))

AfterN(q, n) == SubSeq(q, Least(n, Len(q)) + 1, Len(q))

(* Mutation: the chunk loop pushes the batch behind what is waiting. *)
RequeueAtTail(q, items) == q \o items

(* The requeue script's effect on the queue; module QueueScripts derives it *)
(* from the chunked LPUSH loop.                                             *)
Requeue(q, items) == items \o q

(* _decode: what can be inserted of a list of payloads. *)
Rows(items) == Range(items) \ Undecodable

(* An INSERT block may span two monthly partitions, each of which commits  *)
(* on its own: a failing one has stored any part of its rows.              *)
Stores(S) == /\ stored' = stored \cup S
             /\ dup' = dup \cup (S \cap stored)

Up == {w \in Worker : pc[w] # "down"}

(* release(): the list of w goes back to the head of the queue. *)
Release(w) == /\ queue' = Requeue(queue, inflight[w])
              /\ inflight' = [inflight EXCEPT ![w] = <<>>]

(* The process ends: what it had in memory is gone. *)
GoesDown(w) == /\ pc' = [pc EXCEPT ![w] = "down"]
               /\ batch' = [batch EXCEPT ![w] = <<>>]
               /\ stop' = [stop EXCEPT ![w] = FALSE]

Goto(w, label) == /\ pc' = [pc EXCEPT ![w] = label]
                  /\ UNCHANGED <<batch, stop>>

-----------------------------------------------------------------------------
Init == /\ arrived = 0
        /\ queue = <<>>
        /\ inflight = [w \in Worker |-> <<>>]
        /\ stored = {}
        /\ dup = {}
        /\ window = {}
        /\ pc = [w \in Worker |-> "down"]
        /\ batch = [w \in Worker |-> <<>>]
        /\ stop = [w \in Worker |-> FALSE]
        /\ todo = {}
        /\ live = {}

(* The receiver's RPUSH of a batch of n payloads, push_many(). *)
Push(n) == /\ arrived + n <= NumRecords
           /\ arrived' = arrived + n
           /\ queue' = queue \o [i \in 1..n |-> arrived + i]
           /\ UNCHANGED <<inflight, tableVars, window, workerVars, maintVars>>

(* systemd (Restart=always) or an operator starts a worker. *)
Start(w) == /\ pc[w] = "down"
            /\ Cardinality(Up) < MaxUp
            /\ Goto(w, "recover")
            /\ UNCHANGED <<arrived, redisVars, tableVars, window, maintVars>>

(* Mutation: a new process does not look at its in-flight list. *)
RecoverNothing(w) == /\ pc[w] = "recover"
                     /\ Goto(w, "loop")
                     /\ UNCHANGED <<arrived, redisVars, tableVars, window, maintVars>>

(* run() first requeues what a previous process of this id left behind,    *)
(* and only then installs the signal handlers.                             *)
Recover(w) == /\ pc[w] = "recover"
              /\ Release(w)
              /\ Goto(w, "loop")
              /\ UNCHANGED <<arrived, tableVars, window, maintVars>>

(* That release raises: nothing catches it. *)
RecoverFail(w) == /\ "redis" \in Faults
                  /\ pc[w] = "recover"
                  /\ Release(w) \/ UNCHANGED redisVars
                  /\ GoesDown(w)
                  /\ UNCHANGED <<arrived, tableVars, window, maintVars>>

(* SIGTERM or SIGINT sets the event; a claim or an insert under way goes   *)
(* on.                                                                     *)
Signal(w) == /\ pc[w] \in {"loop", "retry", "inserting", "ack"}
             /\ ~stop[w]
             /\ stop' = [stop EXCEPT ![w] = TRUE]
             /\ UNCHANGED <<arrived, redisVars, tableVars, window, pc, batch, maintVars>>

(* The claim script: up to BatchSize payloads move from the queue to the   *)
(* tail of the in-flight list.                                             *)
ClaimScript(w) ==
  /\ queue # <<>>
  /\ queue' = AfterN(queue, BatchSize)
  /\ inflight' = [inflight EXCEPT ![w] = @ \o FirstN(queue, BatchSize)]

(* The claim is answered and decoded.  A batch with nothing to insert is   *)
(* acknowledged at once.  The script finds the event unset before it is    *)
(* sent; Signal may follow before the loop tests the event again.          *)
Claim(w) ==
  LET items == FirstN(queue, BatchSize) IN
  /\ pc[w] = "loop"
  /\ ~stop[w]
  /\ ClaimScript(w)
  /\ batch' = [batch EXCEPT ![w] = items]
  /\ pc' = [pc EXCEPT ![w] = IF Rows(items) = {} THEN "ack" ELSE "retry"]
  /\ UNCHANGED <<arrived, tableVars, window, stop, maintVars>>

(* The script ran but its reply was lost: the exception is logged and the  *)
(* loop goes on to claim again.                                            *)
ClaimReplyLost(w) ==
  /\ pc[w] = "loop"
  /\ ~stop[w]
  /\ ClaimScript(w)
  /\ UNCHANGED <<arrived, tableVars, window, workerVars, maintVars>>

(* asyncio.to_thread(insert_rows, rows). *)
BeginInsert(w) == /\ pc[w] = "retry"
                  /\ ~stop[w]
                  /\ Goto(w, "inserting")
                  /\ UNCHANGED <<arrived, redisVars, tableVars, window, maintVars>>

InsertOk(w) == /\ pc[w] = "inserting"
               /\ Stores(Rows(batch[w]))
               /\ Goto(w, "ack")
               /\ UNCHANGED <<arrived, redisVars, window, maintVars>>

(* Mutation: a failed insert falls through to the ack. *)
InsertFailAcks(w) == /\ "insert" \in Faults
                     /\ pc[w] = "inserting"
                     /\ Goto(w, "ack")
                     /\ UNCHANGED <<arrived, redisVars, tableVars, window, maintVars>>

(* The insert raises, having stored any part of the rows; the claim is     *)
(* kept and, after the backoff, the loop tests the event.                  *)
InsertFail(w) == /\ "insert" \in Faults
                 /\ pc[w] = "inserting"
                 /\ \E S \in SUBSET Rows(batch[w]) :
                      /\ Stores(S)
                      /\ window' = window \cup S
                 /\ Goto(w, "retry")
                 /\ UNCHANGED <<arrived, redisVars, maintVars>>

(* Mutation: the worker moves on without deleting its claim. *)
AckKeepsClaim(w) == /\ pc[w] = "ack"
                    /\ pc' = [pc EXCEPT ![w] = "loop"]
                    /\ batch' = [batch EXCEPT ![w] = <<>>]
                    /\ UNCHANGED <<arrived, redisVars, tableVars, window, stop, maintVars>>

(* ack(): DEL of the in-flight list, whatever it holds by now. *)
Ack(w) == /\ pc[w] = "ack"
          /\ inflight' = [inflight EXCEPT ![w] = <<>>]
          /\ pc' = [pc EXCEPT ![w] = "loop"]
          /\ batch' = [batch EXCEPT ![w] = <<>>]
          /\ UNCHANGED <<arrived, queue, tableVars, window, stop, maintVars>>

(* The DEL raises, executed or not; nothing catches it. *)
AckFail(w) == /\ "redis" \in Faults
              /\ pc[w] = "ack"
              /\ \/ /\ inflight' = [inflight EXCEPT ![w] = <<>>]
                    /\ UNCHANGED window
                 \/ /\ window' = window \cup Rows(batch[w])
                    /\ UNCHANGED inflight
              /\ GoesDown(w)
              /\ UNCHANGED <<arrived, queue, tableVars, maintVars>>

(* The event is set while retrying: the claim is handed back. *)
HandBack(w) == /\ pc[w] = "retry"
               /\ stop[w]
               /\ Release(w)
               /\ pc' = [pc EXCEPT ![w] = "loop"]
               /\ batch' = [batch EXCEPT ![w] = <<>>]
               /\ UNCHANGED <<arrived, tableVars, window, stop, maintVars>>

HandBackFail(w) == /\ "redis" \in Faults
                   /\ pc[w] = "retry"
                   /\ stop[w]
                   /\ Release(w) \/ UNCHANGED redisVars
                   /\ GoesDown(w)
                   /\ UNCHANGED <<arrived, tableVars, window, maintVars>>

(* The loop ends and shutdown() releases once more, ignoring exceptions. *)
Shutdown(w) == /\ pc[w] = "loop"
               /\ stop[w]
               /\ \/ Release(w)
                  \/ "redis" \in Faults /\ UNCHANGED redisVars
               /\ GoesDown(w)
               /\ UNCHANGED <<arrived, tableVars, window, maintVars>>

(* SIGKILL, or a signal before the handlers are installed.  An insert      *)
(* under way may still store its rows.                                     *)
Kill(w) == /\ "kill" \in Faults
           /\ pc[w] # "down"
           /\ CASE pc[w] = "inserting" ->
                     \E S \in SUBSET Rows(batch[w]) :
                       /\ Stores(S)
                       /\ window' = window \cup S
                [] pc[w] = "ack" ->
                     /\ window' = window \cup Rows(batch[w])
                     /\ UNCHANGED tableVars
                [] OTHER -> UNCHANGED <<tableVars, window>>
           /\ GoesDown(w)
           /\ UNCHANGED <<arrived, redisVars, maintVars>>

(* Mutation: the pid of an id is not looked up. *)
LiveWorkerIdsAll(others) == LocalIds

(* _live_worker_ids(): this host's ids whose pid exists, be it the worker's *)
(* or another program's.                                                    *)
LiveWorkerIds(others) == (Up \cap LocalIds) \cup others

(* recover_orphaned_claims: the ids are listed once, then the keys are     *)
(* scanned.                                                                *)
MaintStart == /\ todo = {}
              /\ todo' = Worker
              /\ \E others \in SUBSET ForeignPids : live' = LiveWorkerIds(others)
              /\ UNCHANGED <<arrived, redisVars, tableVars, window, workerVars>>

(* SCAN yields a key that existed all along and may miss one created since *)
(* it began: visiting a key while its list is empty stands for not         *)
(* yielding it.  Each key is visited once, in any order.  A worker that    *)
(* started after the ids were listed is up, but not in live: its ack will  *)
(* find nothing to delete.                                                 *)
MaintVisit(k) == /\ k \in todo
                 /\ todo' = todo \ {k}
                 /\ IF k \in live THEN UNCHANGED redisVars ELSE Release(k)
                 /\ window' = IF k \notin live /\ pc[k] \in {"retry", "inserting", "ack"}
                              THEN window \cup Rows(inflight[k])
                              ELSE window
                 /\ live' = IF todo' = {} THEN {} ELSE live
                 /\ UNCHANGED <<arrived, tableVars, workerVars>>

(* A release raised, or the process was killed: the run goes on to the     *)
(* archives, or ends, without the other keys.                              *)
MaintAbort == /\ "redis" \in Faults
              /\ todo # {}
              /\ todo' = {}
              /\ live' = {}
              /\ UNCHANGED <<arrived, redisVars, tableVars, window, workerVars>>

-----------------------------------------------------------------------------
(* A step of a worker whose claims are answered, and any step of one.      *)
AnsweredStep(w) == \/ Start(w) \/ Recover(w) \/ RecoverFail(w) \/ Signal(w)
                   \/ Claim(w) \/ BeginInsert(w) \/ InsertOk(w) \/ InsertFail(w)
                   \/ Ack(w) \/ AckFail(w) \/ HandBack(w) \/ HandBackFail(w)
                   \/ Shutdown(w) \/ Kill(w)

WorkerStep(w) == AnsweredStep(w) \/ ClaimReplyLost(w)

PushNext == \E n \in 1..PushBatch : Push(n)

MaintNext == MaintStart \/ MaintAbort \/ \E k \in Worker : MaintVisit(k)

Next == PushNext \/ (\E w \in Worker : AnsweredStep(w)) \/ MaintNext

Spec == Init /\ [][Next]_vars

(* The replies of claims may be lost as well. *)
LossyNext == PushNext \/ (\E w \in Worker : WorkerStep(w)) \/ MaintNext

LossySpec == Init /\ [][LossyNext]_vars

(* The workers alone: no maintenance run falls into the behaviour. *)
WorkersSpec == Init /\ [][PushNext \/ \E w \in Worker : WorkerStep(w)]_vars

(* What a worker or an operator does against progress. *)
Disturbance(w) == \/ RecoverFail(w) \/ Signal(w) \/ ClaimReplyLost(w) \/ InsertFail(w)
                  \/ AckFail(w) \/ HandBackFail(w) \/ Kill(w)

Progress(w) == \/ Recover(w) \/ Claim(w) \/ BeginInsert(w) \/ InsertOk(w)
               \/ Ack(w) \/ HandBack(w) \/ Shutdown(w)

(* Once the disturbances are over, every step that stays possible is taken.*)
(* A worker is started when none is up; an id made of a pid that is dead   *)
(* need not come back.  The timer keeps starting maintenance runs; not at  *)
(* every one of them does another program hold the pid of a dead worker,   *)
(* and not every one of them is aborted before it comes to a dead worker's *)
(* key.                                                                    *)
QuietFairness ==
  /\ <>[][\A w \in Worker : ~Disturbance(w)]_vars
  /\ WF_vars(Up = {} /\ \E w \in Worker : Start(w))
  /\ \A w \in Worker : WF_vars(Progress(w))
  /\ \A k \in Worker : /\ WF_vars(MaintVisit(k))
                       /\ SF_vars(k \notin live /\ MaintVisit(k))
  /\ SF_vars(MaintStart /\ live' = LiveWorkerIds({}))

FairSpec == Spec /\ QuietFairness

-----------------------------------------------------------------------------
InFlight == UNION {Range(inflight[w]) : w \in Worker}

(* Everything Redis holds of the records. *)
Held == Range(queue) \cup InFlight

(* Every variable keeps its type: the scripts, the retries and the         *)
(* recoveries leave lists of records and known program points.             *)
TypeOK == /\ arrived \in 0..NumRecords
          /\ queue \in Seq(Record)
          /\ inflight \in [Worker -> Seq(Record)]
          /\ stored \subseteq Record \ Undecodable
          /\ dup \subseteq stored
          /\ window \subseteq Record \ Undecodable
          /\ pc \in [Worker -> {"down", "recover", "loop", "retry", "inserting", "ack"}]
          /\ batch \in [Worker -> Seq(Record)]
          /\ stop \in [Worker -> BOOLEAN]
          /\ todo \subseteq Worker
          /\ live \subseteq Worker

(* No record is lost between the push and the table (redis_queue.py:8-10,  *)
(* architecture.md:63-64): whatever was pushed and can be decoded is in    *)
(* the queue, in some in-flight list, or a row.                            *)
NoLoss == (1..arrived) \ Undecodable \subseteq Held \cup stored

(* When a worker is about to DEL its in-flight list (worker.py:92, 114),   *)
(* everything in the list that can be a row is one.                        *)
AckSafe == \A w \in Worker : pc[w] = "ack" => Rows(inflight[w]) \subseteq stored

(* How a process, its in-flight list and the table stand to each other at  *)
(* each point of run(): the list is empty whenever the worker comes to     *)
(* claim again (worker.py:73), so that the DEL that follows concerns one   *)
(* batch; it never holds more than the process has in hand; and what the   *)
(* process has in hand may be gone from Redis (a maintenance run took the  *)
(* list and another worker acked it) only if it is in the table.           *)
ClaimInv ==
  \A w \in Worker :
    /\ pc[w] = "loop" => inflight[w] = <<>>
    /\ pc[w] \in {"retry", "inserting", "ack"} => Range(inflight[w]) \subseteq Range(batch[w])
    /\ pc[w] = "ack" => Rows(batch[w]) \subseteq stored
    /\ Rows(batch[w]) \subseteq Held \cup stored

(* Claims are exclusive: whoever claims, hands back, dies or is requeued,  *)
(* and in whatever order, a record is at one place of one list.            *)
HeldOnce == /\ IsInjective(queue)
            /\ \A w \in Worker : /\ IsInjective(inflight[w])
                                 /\ Range(inflight[w]) \cap Range(queue) = {}
            /\ \A v, w \in Worker :
                 v # w => Range(inflight[v]) \cap Range(inflight[w]) = {}

(* A row is stored twice only if its insert took effect and its ack did    *)
(* not (redis_queue.py:12-13): the process died or failed before, or a     *)
(* maintenance run had taken the claim by then (maintenance.py:140-142).   *)
(* No hand-back, recovery or retry adds to that.                           *)
DuplicateOnlyInWindow == dup \subseteq window

(* With one worker of a fixed id the backlog stays in the order of arrival *)
(* through every failure: the claimed records before the waiting ones, as  *)
(* the requeue script's comment asks (redis_queue.py:59-60).               *)
BacklogOrder ==
  \A w \in Worker : LET backlog == inflight[w] \o queue IN
    \A i, j \in DOMAIN backlog : i < j => backlog[i] < backlog[j]

(* Every record that was pushed and can be decoded becomes a row.          *)
EventuallyStored ==
  \A r \in Record \ Undecodable : (arrived >= r) ~> (r \in stored)

(* The lists implement at-least-once delivery.                             *)
D == INSTANCE Delivery WITH accepted <- 1..arrived,
                            held <- Held,
                            delivered <- stored
ImplementsDelivery == D!Spec

=============================================================================
