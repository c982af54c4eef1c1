SPECIFICATION Spec
CONSTANTS
  Pipelines = {p1}
  Pollers = {w1, w2}
  Users = {u1}
  Crons <- OneCron
  MaxTime = 2
  MaxFaults = 1
  MaxRetries = 1
  MaxRequests = 2
  NoPipeline = NoPipeline
SYMMETRY Symmetry
INVARIANTS
  OverlapIsBounded
  LateRunsAreBounded
CHECK_DEADLOCK FALSE
