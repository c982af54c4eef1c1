SPECIFICATION FairSpec
CONSTANTS
  Pipelines = {p1, p2}
  Pollers = {w1}
  Users = {}
  MaxFaults = 1
  MaxRetries = 0
  MaxRequests = 1
  Crons <- TwoCrons
  MaxTime = 3
  NoPipeline = NoPipeline
INVARIANT OncePerDueTime
PROPERTY DueIsServed
CHECK_DEADLOCK FALSE
