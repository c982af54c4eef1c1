SPECIFICATION FairSpec
CONSTANTS
  Users = {"ann", "admin"}
  Privileged = {"admin"}
  Connectors = {"c1", "c2"}
  Pipelines = {"p1"}
  Statuses = {"ACTIVE", "PAUSED"}
  Active = "ACTIVE"
  None = "none"
  Requests = {1, 2}
  MaxWrites = 4
  MaxFaults = 1
  Readers = {"ann", "bob", "operator"}
  Operators = {"operator"}
  Containers = {"annsOne", "bobsOne"}
  OwnerOf <- TwoOwners
  ItemStatuses = {"FAILED", "SUCCESS"}
  Failed = "FAILED"
  Limit = 1
  Latest = 2
  MaxItems = 3
  MaxChanges = 2
  Listed = {"p1", "p2"}
  MaxAttempt = 1
  MaxCalls = 3
CHECK_DEADLOCK FALSE
INVARIANTS
  SourceIsUsable
  SilentChangesCostOverlaps
  MissedCostLeft
  DashboardIsTimely
  StaleRowWasOutrun
  RepeatCostsAnother
PROPERTIES
  CallsSettle
