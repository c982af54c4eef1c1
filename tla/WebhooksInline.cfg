SPECIFICATION Spec
CONSTANTS
  Requests = {r1, r2, r3}
  Kinds = {"deliver", "retry", "process"}
  Executors = {w1, w2}
  Pipelines = {p1, p2}
  Broken = {p2}
  Keys = {k1}
  NoKey = NoKey
  KnownConnector = {TRUE, FALSE}
  Async = FALSE
  MaxAttempts = 2
  MaxStalled = 1
  MaxFaults = 1
  MaxToggles = 1
  None = None
SYMMETRY Symmetry
INVARIANTS
  RecordsCostRequests
  StuckEventsCostFaults
CHECK_DEADLOCK FALSE
