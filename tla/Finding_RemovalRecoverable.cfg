CONSTANTS
  Versions = {v1, v2}
  Removals = {r1, r2}
  Procs = {p1, p2}
  MaxFaults = 2
  MaxCrashes = 1
  NoVersion = NoVersion
  NoProc = NoProc
  NoRemoval = NoRemoval
  v1 = v1
  v2 = v2
  r1 = r1
  r2 = r2
  p1 = p1
  p2 = p2
SPECIFICATION Spec
CHECK_DEADLOCK FALSE
INVARIANT RemovalRecoverable
