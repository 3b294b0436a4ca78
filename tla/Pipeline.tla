------------------------------ MODULE Pipeline ------------------------------
(***************************************************************************)
(* A receiver, the Redis queue and a worker together: what Ingest appends  *)
(* with its RPUSH is what BatchWorker claims, and the depth of the queue   *)
(* is what makes the receiver shed (receiver.py:182-206).                  *)
(*                                                                         *)
(* Record k of the worker is redis[k], the k-th the receiver pushed.  The  *)
(* worker has a fixed id that the maintenance run does not recognise, so   *)
(* that its in-flight list is its own.                                     *)
(***************************************************************************)
EXTENDS Ingest

CONSTANTS BatchSize,       \* clickhouse.batch_size
          Worker,          \* worker ids
          WorkerFaults,    \* the failures of a worker
          MaxQueueLength   \* redis.max_queue_length

ASSUME PipelineAssumption == /\ BatchSize \in Nat \ {0}
                             /\ MaxQueueLength \in Nat

VARIABLES queue, inflight, stored, pc, batch, stop,
          depth,     \* what _check_backpressure() has read and not yet used
          unanswered \* records of the claims whose reply was lost

W == INSTANCE BatchWorker WITH arrived <- Len(redis),
                               Faults <- WorkerFaults,
                               Undecodable <- {},
                               PushBatch <- Batch,
                               LocalIds <- {},
                               ForeignPids <- {},
                               MaxUp <- 1,
                               dup <- 1..NumRecords,
                               window <- 1..NumRecords,
                               todo <- {},
                               live <- {}

claimVars == <<inflight, stored, pc, batch, stop, unanswered>>
workerVars == <<queue, claimVars>>
allVars == <<vars, workerVars, depth>>

PipelineInit == /\ Init
                /\ queue = <<>>
                /\ inflight = [w \in Worker |-> <<>>]
                /\ stored = {}
                /\ pc = [w \in Worker |-> "down"]
                /\ batch = [w \in Worker |-> <<>>]
                /\ stop = [w \in Worker |-> FALSE]
                /\ depth = "unread"
                /\ unanswered = {}

-----------------------------------------------------------------------------
(* Redis appends what an RPUSH carries to the queue the workers claim from. *)
Appended == /\ queue' = queue \o [i \in 1..(Len(redis') - Len(redis)) |-> Len(redis) + i]
            /\ UNCHANGED claimVars

(* The flusher ticks unless it awaits the depth. *)
FlusherTick == /\ depth = "unread"
               /\ Tick
               /\ UNCHANGED depth

(* Mutation: the comparison is the wrong way round. *)
WithinLimit == Len(queue) <= MaxQueueLength

OverLimit == Len(queue) > MaxQueueLength

(* The LLEN of _check_backpressure(), every 2 s, finds the queue over its  *)
(* limit.  One within it, or one that fails, changes nothing.              *)
Measure == /\ mode = "serving"
           /\ depth = "unread"
           /\ OverLimit
           /\ depth' = "over"
           /\ UNCHANGED vars

(* What follows the replies to LLEN and to the gauge's HSET: by then the   *)
(* queue may be within its limit again.                                    *)
HeedDepth == /\ depth = "over"
             /\ depth' = "unread"
             /\ Pause

(* The stop cancels the flusher wherever it is. *)
StopFlusher == Stop /\ depth' = "unread"

Pushes == StartPush \/ \E b \in sending : EndPush(b)
Serves == Handle \/ Resume \/ Connect \/ Disconnect \/ Closed \/ Drained \/ Exit

ReceiverStep == /\ \/ Pushes /\ UNCHANGED depth
                   \/ Serves /\ UNCHANGED depth
                   \/ FlusherTick \/ Measure \/ HeedDepth \/ StopFlusher
                /\ Appended

(* A claim whose reply is lost is on the list and in nobody's hands. *)
WorkerStep(w) == /\ UNCHANGED <<vars, depth>>
                 /\ W!WorkerStep(w)
                 /\ unanswered' = IF pc[w] = "loop" /\ pc'[w] = "loop"
                                  THEN unanswered \cup Range(inflight'[w])
                                  ELSE unanswered

PipelineNext == ReceiverStep \/ \E w \in Worker : WorkerStep(w)

PipelineSpec == PipelineInit /\ [][PipelineNext]_allVars

(* The event loop runs what is ready, Redis answers the receiver or fails, *)
(* and the flusher, which looks at the depth at every tenth tick or so,    *)
(* ticks in between.  Disturbances of the worker come to an end (see       *)
(* BatchWorker), those of the receiver need not.                           *)
FairPipeline ==
  /\ PipelineSpec
  /\ SF_allVars(FlusherTick /\ Appended)
  /\ WF_allVars(HeedDepth /\ Appended)
  /\ WF_allVars(Resume /\ UNCHANGED depth /\ Appended)
  /\ WF_allVars(Pushes /\ UNCHANGED depth /\ Appended)
  /\ WF_allVars((Drained \/ Exit) /\ UNCHANGED depth /\ Appended)
  /\ <>[][\A w \in Worker : ~W!Disturbance(w)]_allVars
  /\ \A w \in Worker : WF_allVars(WorkerStep(w) /\ (W!Start(w) \/ W!Progress(w)))

-----------------------------------------------------------------------------
(* With a worker of a fixed id the backlog stays in the order of arrival   *)
(* through every failure: the claimed records before the waiting ones, as  *)
(* the requeue script's comment asks (redis_queue.py:59-60).               *)
BacklogOrder == W!BacklogOrder

(* What the receiver has pushed is kept by Redis, a worker or the table,   *)
(* whatever fails on the way (architecture.md:63-64): only the records of  *)
(* a claim whose reply was lost may be gone.  What it has not pushed is in *)
(* its hands or in one of its drop counters, or it was lost at a stop in   *)
(* one of the two ways of LostAtStop.                                      *)
CountedOrKept ==
  \A r \in 1..handled :
    IF r \in Range(redis)
    THEN \E k \in DOMAIN redis : redis[k] = r /\ k \in W!Held \cup stored \cup unanswered
    ELSE r \in Range(buffer) \cup InFlight \cup shed \cup failed \cup LostAtStop

(* What was pushed is a row, or gone with a lost claim reply, be it        *)
(* counted as failed or not; the rest is counted, or was lost at a stop.   *)
Ended(r) == IF r \in Range(redis)
            THEN \E k \in DOMAIN redis : redis[k] = r /\ k \in stored \cup unanswered
            ELSE r \in shed \cup failed \cup LostAtStop

(* However often the worker dies, and whether the receiver serves or stops,*)
(* what it accepted comes to its end, and with the backlog gone nothing    *)
(* makes it shed again (receiver.py:200-201: every pause is one of five    *)
(* seconds).  A drain waits for the connections first.                     *)
Settles == <>[]\/ mode = "closing"
               \/ ~paused /\ \A r \in 1..handled : Ended(r)
=============================================================================
