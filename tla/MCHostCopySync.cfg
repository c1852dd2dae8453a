CONSTANTS
  Bs = 2
  PathLen = 2
  Stride = 3
  SpecV2 = FALSE
  MaxPasses = 3
SPECIFICATION SpecSync
INVARIANTS PathsTaken
CHECK_DEADLOCK FALSE
