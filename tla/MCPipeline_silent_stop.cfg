\* A receiver on asyncio's own loop, without TCP, that is stopped: no failure.
CONSTANTS
  NumRecords = 2
  Batch = 1
  Faults = {}
  Tcp = FALSE
  Loops = {"asyncio"}
  BatchSize = 1
  Worker = {w1}
  WorkerFaults = {}
  MaxQueueLength = 2
SPECIFICATION PipelineSpec
INVARIANT NoSilentLoss
