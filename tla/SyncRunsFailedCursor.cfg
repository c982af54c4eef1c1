SPECIFICATION Spec
CONSTANTS
  Runs = {r1, r2}
  Pipelines = {p1}
  Incremental = {p1}
  Executors = {w1}
  Payloads <- OneRecordPayloads
  IgnoreCursor = {FALSE}
  QueueMode = "async"
  MaxAttempts = 2
  MaxStalled = 1
  MaxFaults = 1
  NoRun = NoRun
INVARIANT FailedRunLeavesCursor
CHECK_DEADLOCK FALSE
