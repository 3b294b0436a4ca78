\* A receiver and a worker with a queue that is over its limit at two records:
\* TCP and UDP, either event loop, failures on both sides, a stop at any time.
CONSTANTS
  NumRecords = 3
  Batch = 2
  Faults = {"redis"}
  Tcp = TRUE
  Loops = {"uvloop", "asyncio"}
  BatchSize = 2
  Worker = {w1}
  WorkerFaults = {"redis", "insert", "kill"}
  MaxQueueLength = 1
SPECIFICATION FairPipeline
INVARIANT TypeOK
INVARIANT AccountedFor
INVARIANT OnePush
INVARIANT ArrivalOrder
INVARIANT BufferDrained
INVARIANT BacklogOrder
INVARIANT CountedOrKept
PROPERTY Settles
\* The receiver ends.
CHECK_DEADLOCK FALSE
