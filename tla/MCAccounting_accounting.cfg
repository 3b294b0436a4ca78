\* Two lines at most in chunks of up to six bytes: a chunk and what is left of a
\* line, short or long, may not fit into the buffer.  Two flushes may fail.
CONSTANTS
  MaxLine = 8
  MaxChunk = 6
  MaxForms = 2
  Form <- Forms
  Counter <- Names
  MaxFailures = 2
SPECIFICATION FairSpec
CHECK_DEADLOCK FALSE
INVARIANT TypeOK
INVARIANT FramedAsSent
INVARIANT CountsKept
INVARIANT StopReports
INVARIANT OutcomesWithinReceived
PROPERTY Reported
