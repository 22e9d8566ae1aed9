CONSTANTS
  Jobs = {j1}
  AllowListed = {j1}
  Calls = {c1, c2}
  Approvals = {TRUE, FALSE}
  MaxCrashes = 0
  MaxFaults = 0
  LateFaults = TRUE
  TaskCancels = FALSE
  NoCall = NoCall
  NoJob = NoJob
  NoId = NoId
  NoReceipt = NoReceipt
  NoEntry = NoEntry
  j1 = j1
  c1 = c1
  c2 = c2
SPECIFICATION Spec
CHECK_DEADLOCK FALSE
INVARIANT CompletedRunReceipted
