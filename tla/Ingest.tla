------------------------------- MODULE Ingest -------------------------------
(***************************************************************************)
(* One receiver process, src/backend/app/services/receiver.py: the buffer  *)
(* of encoded records, the push tasks that empty it into Redis, shedding   *)
(* under backpressure, and the drain at shutdown.                          *)
(*                                                                         *)
(* Everything runs on one event loop, so a step is what happens between    *)
(* two awaits: a callback (handle), the head of the _push coroutine up to  *)
(* its RPUSH, what follows the reply, a tick of the flusher, a stretch of  *)
(* _serve.  A payload that handle() rejects (unknown router, parse error)  *)
(* is counted at once and reaches no other step, so only accepted records  *)
(* are numbered, in the order handle() saw them.                           *)
(***************************************************************************)
EXTENDS Integers, Sequences, FiniteSets, Functions

CONSTANTS NumRecords,   \* accepted records: the bound on a counter
          Batch,        \* receiver.push_batch
          Faults,       \* {"redis"}: an RPUSH may fail
          Tcp,          \* receiver.tcp_enabled
          Loops         \* event loops _run_once may end up with

ASSUME IngestAssumption == /\ NumRecords \in Nat
                           /\ Batch \in Nat \ {0}
                           /\ Faults \subseteq {"redis"}
                           /\ Tcp \in BOOLEAN
                           /\ Loops \subseteq {"uvloop", "asyncio"}

VARIABLES handled,    \* records accepted so far
          buffer,     \* _buffer
          pushing,    \* _pushing
          created,    \* push tasks created that have not started
          sending,    \* batches of push tasks whose RPUSH is under way
          paused,     \* now < _paused_until
          redis,      \* what RPUSH appended, in order
          shed,       \* counted as DROPPED_BACKPRESSURE
          failed,     \* counted as DROPPED_REDIS_ERROR
          mode,       \* where _serve is
          draining,   \* the batch of _serve's own _push
          connected,  \* a router's TCP connection is open
          loop,       \* the event loop, chosen where it first matters
          late,       \* accepted after the drain had taken the buffer
          cut         \* of push tasks cancelled, or destroyed, at the end

pushVars == <<buffer, pushing, created, sending, draining>>
fateVars == <<redis, shed, failed, cut>>
envVars == <<connected, loop>>
vars == <<handled, buffer, pushing, created, sending, paused, redis, shed,
          failed, mode, draining, connected, loop, late, cut>>

Record == 1..NumRecords

Init == /\ handled = 0
        /\ buffer = <<>>
        /\ pushing = FALSE
        /\ created = 0
        /\ sending = {}
        /\ paused = FALSE
        /\ redis = <<>>
        /\ shed = {}
        /\ failed = {}
        /\ mode = "serving"
        /\ draining = <<>>
        /\ connected = FALSE
        /\ loop = "any"
        /\ late = {}
        /\ cut = {}

-----------------------------------------------------------------------------
(* Mutation: _schedule_flush does not look at _pushing. *)
ScheduleAlways(wanted) == IF wanted
                          THEN pushing' = TRUE /\ created' = created + 1
                          ELSE UNCHANGED <<pushing, created>>

(* _schedule_flush(), called when wanted. *)
Schedule(wanted) == IF wanted /\ ~pushing
                    THEN pushing' = TRUE /\ created' = created + 1
                    ELSE UNCHANGED <<pushing, created>>

(* The drain has taken the buffer: what is buffered from here on is pushed *)
(* only if it fills a batch.                                               *)
Drains == mode \notin {"serving", "closing"}

(* A datagram or a TCP line.  The UDP transport is closed before the drain *)
(* awaits anything; a TCP connection that is open stays open, and is read  *)
(* for as long as the loop runs.                                           *)
Handle == /\ mode = "serving" \/ (mode # "exited" /\ connected)
          /\ handled < NumRecords
          /\ handled' = handled + 1
          /\ buffer' = Append(buffer, handled')
          /\ late' = IF Drains THEN late \cup {handled'} ELSE late
          /\ Schedule(Len(buffer') >= Batch)
          /\ UNCHANGED <<sending, draining, paused, mode, envVars, fateVars>>

(* The time-based flush of run_flusher(). *)
Tick == /\ mode = "serving"
        /\ buffer # <<>>
        /\ ~pushing
        /\ Schedule(TRUE)
        /\ UNCHANGED <<handled, buffer, sending, draining, paused, mode, envVars, fateVars, late>>

(* _check_backpressure() finds the queue over its limit; the queue is      *)
(* emptied by the workers and filled by other receivers, so it may.        *)
Pause == /\ mode = "serving"
         /\ paused' = TRUE
         /\ UNCHANGED <<handled, pushVars, mode, envVars, fateVars, late>>

(* Five seconds have passed. *)
Resume == /\ mode # "exited"
          /\ paused
          /\ paused' = FALSE
          /\ UNCHANGED <<handled, pushVars, mode, envVars, fateVars, late>>

(* The head of _push(), up to the RPUSH. *)
PushEndsAtOnce == buffer = <<>> \/ paused
TakesBuffer == /\ buffer' = <<>>
               /\ shed' = IF paused THEN shed \cup Range(buffer) ELSE shed
               /\ UNCHANGED <<redis, failed, cut>>

StartPush == /\ mode # "exited"
             /\ created > 0
             /\ created' = created - 1
             /\ TakesBuffer
             /\ pushing' = (pushing /\ ~PushEndsAtOnce)
             /\ sending' = IF PushEndsAtOnce THEN sending ELSE sending \cup {buffer}
             /\ UNCHANGED <<handled, draining, paused, mode, envVars, late>>

(* Mutation: _pushing is reset only when the RPUSH succeeds. *)
PushFailsStuck(batch) == /\ "redis" \in Faults
                         /\ failed' = failed \cup Range(batch)
                         /\ UNCHANGED <<redis, pushing>>

(* Mutation: the exception is logged, not counted. *)
PushFailsUncounted(batch) == /\ "redis" \in Faults
                             /\ pushing' = FALSE
                             /\ UNCHANGED <<redis, failed>>

(* What follows the reply: the RPUSH took effect and was answered, or an   *)
(* exception counts the batch as dropped, whether it took effect or not.   *)
PushSucceeds(batch) == /\ redis' = redis \o batch
                       /\ pushing' = FALSE
                       /\ UNCHANGED failed
PushFails(batch) == /\ "redis" \in Faults
                    /\ redis' = redis \o batch \/ UNCHANGED redis
                    /\ failed' = failed \cup Range(batch)
                    /\ pushing' = FALSE

EndPush(batch) == /\ mode # "exited"
                  /\ batch \in sending
                  /\ PushSucceeds(batch) \/ PushFails(batch)
                  /\ sending' = sending \ {batch}
                  /\ UNCHANGED <<handled, buffer, created, draining, paused, shed, late, cut,
                                 mode, envVars>>

-----------------------------------------------------------------------------
Connect == /\ Tcp
           /\ mode = "serving"
           /\ ~connected
           /\ connected' = TRUE
           /\ UNCHANGED <<handled, pushVars, paused, mode, loop, fateVars, late>>

Disconnect == /\ mode # "exited"
              /\ connected
              /\ connected' = FALSE
              /\ UNCHANGED <<handled, pushVars, paused, mode, loop, fateVars, late>>

(* `await ingest._push()`, the line that empties the buffer. *)
DrainBuffer == /\ TakesBuffer
               /\ pushing' = (pushing /\ ~PushEndsAtOnce)
               /\ draining' = IF PushEndsAtOnce THEN <<>> ELSE buffer
               /\ mode' = IF PushEndsAtOnce THEN "reporting" ELSE "flushing"
               /\ UNCHANGED <<created, sending>>

(* Mutation: nothing waits for the connections. *)
NeverWaits(open) == FALSE

(* server.wait_closed() of uvloop returns at once; that of asyncio (3.12)  *)
(* waits until no connection is open.                                      *)
WaitClosed(open) == open /\ loop' = "asyncio"

(* SIGTERM: the flusher is cancelled and the listening sockets are closed. *)
Stop == /\ mode = "serving"
        /\ loop' \in Loops
        /\ IF WaitClosed(connected)
           THEN mode' = "closing" /\ UNCHANGED <<pushVars, fateVars>>
           ELSE DrainBuffer
        /\ UNCHANGED <<handled, paused, connected, late>>

(* The last connection has closed. *)
Closed == /\ mode = "closing"
          /\ ~connected
          /\ DrainBuffer
          /\ UNCHANGED <<handled, paused, envVars, late>>

Drained == /\ mode = "flushing"
           /\ PushSucceeds(draining) \/ PushFails(draining)
           /\ draining' = <<>>
           /\ mode' = "reporting"
           /\ UNCHANGED <<handled, buffer, created, sending, paused, shed, late, cut, envVars>>

(* What Redis holds in the end of the batches that are still under way:    *)
(* any of them, in any order.  There are two at most (see TypeOK).         *)
Landings == {redis} \cup {redis \o b : b \in sending}
                    \cup UNION {{(redis \o b) \o c : c \in sending \ {b}} : b \in sending}

(* registry.stop(), metrics.stop() and aclose() have been awaited, _serve  *)
(* returns and asyncio.run() cancels the tasks there are.  One that has    *)
(* not started never takes the buffer.  CancelledError, at the RPUSH of    *)
(* one that has, passes `except Exception`: its batch is not counted, and  *)
(* Redis may have executed the RPUSH or not.  Lines that are read before   *)
(* the loop is closed change nothing more: they stay in the buffer, which  *)
(* is gone with the process.                                               *)
Exit == /\ mode = "reporting"
        /\ mode' = "exited"
        /\ redis' \in Landings
        /\ cut' = UNION {Range(b) : b \in sending}
        /\ sending' = {}
        /\ buffer' = <<>>
        /\ pushing' = FALSE
        /\ created' = 0
        /\ paused' = FALSE
        /\ connected' = FALSE
        /\ loop' = "any"
        /\ UNCHANGED <<handled, draining, shed, failed, late>>

Next == \/ Handle \/ Tick \/ Pause \/ Resume \/ StartPush
        \/ \E batch \in sending : EndPush(batch)
        \/ Connect \/ Disconnect \/ Stop \/ Closed \/ Drained \/ Exit

Spec == Init /\ [][Next]_vars

-----------------------------------------------------------------------------
(* What a stop may lose without a count: the batches whose RPUSH had no    *)
(* reply when _serve returned, and, under uvloop, lines read after the     *)
(* drain had taken the buffer.                                             *)
LostAtStop == IF mode = "exited" THEN cut \cup late ELSE {}

InFlight == (UNION {Range(b) : b \in sending}) \cup Range(draining)

(* Types; and no more push tasks wait to start than one that _schedule_flush*)
(* created and one that the drain overtook (receiver.py:158-161).          *)
TypeOK == /\ handled \in 0..NumRecords
          /\ buffer \in Seq(Record)
          /\ pushing \in BOOLEAN
          /\ created \in 0..2
          /\ sending \subseteq Seq(Record)
          /\ paused \in BOOLEAN
          /\ redis \in Seq(Record)
          /\ shed \subseteq Record
          /\ failed \subseteq Record
          /\ mode \in {"serving", "closing", "flushing", "reporting", "exited"}
          /\ draining \in Seq(Record)
          /\ connected \in BOOLEAN
          /\ loop \in Loops \cup {"any"}
          /\ late \subseteq Record
          /\ cut \subseteq Record

(* Until the process has ended, every accepted record is in one place:     *)
(* waiting in the buffer, in one batch under way, or done with, that is in *)
(* Redis or in exactly one drop counter (a failed RPUSH may have taken     *)
(* effect: in both).  When it has ended, only the records of LostAtStop    *)
(* may be in none of them.                                                 *)
AccountedFor ==
  LET done == Range(redis) \cup shed \cup failed IN
  /\ 1..handled \subseteq Range(buffer) \cup InFlight \cup done \cup LostAtStop
  /\ Range(buffer) \cup InFlight \cup done \cup cut \subseteq 1..handled
  /\ Range(buffer) \cap (InFlight \cup done) = {}
  /\ InFlight \cap done = {}
  /\ shed \cap (Range(redis) \cup failed) = {}
  /\ cut \cap (shed \cup failed) = {}

(* "Silent loss is the thing this design rules out" (architecture.md:84):  *)
(* when a receiver that was asked to stop has ended, whatever it accepted  *)
(* is in Redis or in a drop counter.                                       *)
NoSilentLoss == mode = "exited" => 1..handled \subseteq Range(redis) \cup shed \cup failed

(* While the receiver serves, _pushing says exactly whether a push task is *)
(* pending or under way, and there is one at most: pushes cannot overtake  *)
(* each other, and the flag cannot stay set with nobody to reset it.       *)
OnePush == mode = "serving" =>
             created + Cardinality(sending) = (IF pushing THEN 1 ELSE 0)

(* Records reach the Redis list in the order of arrival, each once, which  *)
(* is what the codec and the index rely on (redis_queue.py:59-60); the     *)
(* drain, which pushes beside a running task, is excepted.                 *)
ArrivalOrder == mode = "serving" =>
  \A j, k \in DOMAIN redis : j < k => redis[j] < redis[k]

(* "flush whatever is buffered before exiting" (receiver.py:334): on       *)
(* asyncio's own loop, whose wait_closed() waits for the connections,      *)
(* nothing is in the buffer from the flush on, and what can still be lost  *)
(* is the batch a push task has on its way.  uvloop's does not wait, and   *)
(* lines that arrive on an open connection after the flush are lost.       *)
BufferDrained == loop = "asyncio" /\ mode \in {"flushing", "reporting"} => buffer = <<>>
=============================================================================
