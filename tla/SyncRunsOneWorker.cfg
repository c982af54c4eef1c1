SPECIFICATION FairSpec
CONSTANTS
  Runs = {r1, r2}
  Pipelines = {p1}
  Incremental = {p1}
  Executors = {w1}
  Payloads <- FewPayloads
  IgnoreCursor = {FALSE}
  QueueMode = "async"
  MaxAttempts = 2
  MaxStalled = 1
  MaxFaults = 2
  NoRun = NoRun
PROPERTIES
  CursorOnlyMovesForward
  JobIsSettled
  RunIsFinished
CHECK_DEADLOCK FALSE
