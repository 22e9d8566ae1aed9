CONSTANTS
  Calls = {c1, c2, c3}
  MaxAttempts = 2
  FailureThreshold = 2
  TotalTimeout = 4
  ResetTimeout = 2
  MaxDelay = 1
  c1 = c1
  c2 = c2
  c3 = c3
SPECIFICATION FairSpec
CHECK_DEADLOCK FALSE
INVARIANT OneProbe
PROPERTY ProbeEnds
