SPECIFICATION Spec
CONSTANTS
  Login = Login
  Intake = Intake
  Keys = {Login, Intake}
  Limit <- TwoLimits
  Window = 3
  CleanupEvery = 2
  Second = 2
  MaxClock = 8
  MaxCount = 3
CHECK_DEADLOCK FALSE
INVARIANTS
  SlidingBound
PROPERTIES
  RetryAfterHonoured
  ImplementsQuota
