\* Two requests, a receiver, the command line, every failure.
CONSTANTS
  Ip = {a, b}
  Request = {r1, r2}
  Receiver = {v1}
  MaxEdits = 2
  Cli = TRUE
  RouterFaults = {"publish", "members", "sqlite", "restart"}
SPECIFICATION FairAllowList
INVARIANT AllowListTypeOK
PROPERTY GoodCacheStays
PROPERTY RefreshCatchesUp
