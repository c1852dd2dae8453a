CONSTANTS
  Tokens = {1, 2, 3}
  K = 2
  BeamWidth = 2
  RankSlotTopk <- MCRankSlotTopk
  MaxBlocks = 2
  ExpandBucket = 2
  Budget = 6
  Draws1 <- MCDraws1
  Draws2 <- MCDraws2
  LpRange = 12
SPECIFICATION FairSpec
INVARIANTS TreeTypeOK BestPathsPacked TornOnlyByTies WalkComplete
PROPERTIES WalkEnds
CHECK_DEADLOCK FALSE
