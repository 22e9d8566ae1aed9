CONSTANTS
  Jobs = {j1}
  AllowListed = {j1}
  Calls = {c1, c2}
  Approvals = {TRUE, FALSE}
  MaxCrashes = 1
  MaxFaults = 1
  LateFaults = TRUE
  TaskCancels = TRUE
  NoCall = NoCall
  NoJob = NoJob
  NoId = NoId
  NoReceipt = NoReceipt
  NoEntry = NoEntry
  j1 = j1
  c1 = c1
  c2 = c2
SPECIFICATION Spec
CHECK_DEADLOCK FALSE
SYMMETRY CallSymmetry
INVARIANT OneRunPerJob
INVARIANT CompletedLeavesNothing
INVARIANT LeaseHeld
PROPERTY LedgerSpec
