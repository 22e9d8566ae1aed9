CONSTANTS
  MaxTotal = 4
  MaxConcurrent = 2
  MaxDepth = 3
  MaxPerAgent = 1
  MaxTokens = 3
  MaxUse = 2
  Sessions = {s1}
  s1 = s1
SPECIFICATION FairSpec
CHECK_DEADLOCK FALSE
INVARIANT TokensConserved
INVARIANT SlotsConserved
PROPERTY CancelReaches
PROPERTY Ends
