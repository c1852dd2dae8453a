CONSTANTS
  MaxNew = 9
  MaxPath = 4
  StopStrMaxLen = 2
  StreamInterval = 2
  ForceInterval = 3
SPECIFICATION Spec
INVARIANTS OutputTypeOK StreamedInOrder MatchedTokenIsLast StopsAtFirst StopNoticed OvershootBounded
CHECK_DEADLOCK FALSE
