CONSTANTS
  Requests = {r1, r2, r3, r4}
  Limit = 2
  Targets = 2
  r1 = r1
  r2 = r2
  r3 = r3
  r4 = r4
SPECIFICATION FairSpec
CHECK_DEADLOCK FALSE
INVARIANT SlotsAccounted
PROPERTY OneVoice
PROPERTY WaitersServed
