CONSTANTS
  Callers = {c1, c2}
  CreateKeys = {k1, k2}
  CancelKeys = {x1}
  Files = {f1, f2}
  MaxBatches = 2
  MaxClock = 1
  MaxDone = 1
  MaxLost = 1
  MaxCalls = 4
  NoSnap = NoSnap
  NoKey = NoKey
  NoFile = NoFile
  c1 = c1
  c2 = c2
  k1 = k1
  k2 = k2
  x1 = x1
  f1 = f1
  f2 = f2
SYMMETRY Symmetry
SPECIFICATION Spec
CHECK_DEADLOCK FALSE
INVARIANT AnswersMatch
INVARIANT CatalogTrue
PROPERTY RowsForward
