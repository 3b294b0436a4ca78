\* The only failure is a claim reply that does not arrive.
CONSTANTS
  NumRecords = 2
  Undecodable = {}
  PushBatch = 1
  BatchSize = 1
  Worker = {w1}
  LocalIds = {w1}
  ForeignPids = {}
  MaxUp = 1
  Faults = {}
SPECIFICATION WorkersSpec
INVARIANT NoLoss
