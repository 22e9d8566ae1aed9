CONSTANTS
  Jobs = {j1}
  AllowListed = {}
  Calls = {c1, c2}
  Approvals = {TRUE, FALSE}
  MaxCrashes = 1
  MaxFaults = 1
  LateFaults = TRUE
  TaskCancels = TRUE
  NoCall = NoCall
  NoJob = NoJob
  NoId = NoId
  NoReceipt = NoReceipt
  NoEntry = NoEntry
  j1 = j1
  c1 = c1
  c2 = c2
SPECIFICATION FairSpec
CHECK_DEADLOCK FALSE
PROPERTY JobsSettle
