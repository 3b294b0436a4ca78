\* The maintenance run beside two workers: w1 has a pid of this host, w2 an id
\* it cannot recognise; another program may hold the pid of w1.
CONSTANTS
  NumRecords = 2
  Undecodable = {}
  PushBatch = 2
  BatchSize = 2
  Worker = {w1, w2}
  LocalIds = {w1}
  ForeignPids = {w1}
  MaxUp = 2
  Faults = {"redis", "insert", "kill"}
SPECIFICATION FairSpec
INVARIANT NoLoss
INVARIANT ClaimInv
INVARIANT HeldOnce
INVARIANT DuplicateOnlyInWindow
PROPERTY ImplementsDelivery
PROPERTY EventuallyStored
