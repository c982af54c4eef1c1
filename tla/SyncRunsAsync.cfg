SPECIFICATION Spec
CONSTANTS
  Runs = {r1, r2}
  Pipelines = {p1}
  Incremental = {p1}
  Executors = {w1, w2}
  Payloads <- MixedPayloads
  IgnoreCursor = {TRUE, FALSE}
  QueueMode = "async"
  MaxAttempts = 2
  MaxStalled = 1
  MaxFaults = 2
  NoRun = NoRun
SYMMETRY Symmetry
INVARIANTS
  SuccessLosesNothing
  CursorIsBacked
  CompletedJobIsFinished
  DuplicatesAreBounded
  CountersMatchRows
  AbandonedRunsCostFaults
PROPERTY ImplementsLedger
CHECK_DEADLOCK FALSE
