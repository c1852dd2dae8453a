CONSTANTS
  Bs = 2
  PathLen = 2
  Stride = 3
  SpecV2 = TRUE
  MaxPasses = 3
SPECIFICATION SpecOverlap
INVARIANTS PathsTaken
CHECK_DEADLOCK FALSE
