SPECIFICATION FairSpec
CONSTANTS
  Requests = {r1, r2}
  Kinds = {"deliver", "retry", "process"}
  Executors = {w1, w2}
  Pipelines = {p1, p2}
  Broken = {p2}
  Keys = {k1}
  NoKey = NoKey
  KnownConnector = {TRUE, FALSE}
  Async = TRUE
  MaxAttempts = 2
  MaxStalled = 1
  MaxFaults = 1
  MaxToggles = 0
  None = None
INVARIANTS
  ProcessedIsComplete
  OrphansCostFaults
  StuckEventsCostFaults
  RecordsCostRequests
PROPERTY EventIsSettled
CHECK_DEADLOCK FALSE
