SPECIFICATION Spec
CONSTANTS
  Runs = {r1, r2}
  Pipelines = {p1}
  Incremental = {p1}
  Executors = {w1, w2}
  Payloads <- TwoKeyPayloads
  IgnoreCursor = {TRUE, FALSE}
  QueueMode = "sync"
  MaxAttempts = 1
  MaxStalled = 1
  MaxFaults = 2
  NoRun = NoRun
SYMMETRY Symmetry
INVARIANT AbandonedRunsCostFaults
CHECK_DEADLOCK FALSE
