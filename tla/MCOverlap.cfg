\* Two requests, one of them prefilled in chunks and the other with a grammar; the
\* ring is about to wrap.
CONSTANTS
  r1 = r1
  r2 = r2
  Reqs = {r1, r2}
  Long = {r1}
  PromptLen <- MCPromptLen
  MaxNew = 3
  MaxAccept = 1
  DraftTokens = 2
  StepsTimesTopk = 1
  MaxRunning = 2
  ChunkSize = 2
  ContextLen = 7
  MaxCuts = 1
  PlanStream = FALSE
  Grammar = {r2}
  SyncPrefills = FALSE
  FutureStart = 12
  Unknown = Unknown
SPECIFICATION FairSpec
INVARIANTS
  OverlapTypeOK
  RowsCurrent
  WindowAllocated
  CommittedBehindDevice
PROPERTIES
  ReleasedForGood
  ImplementsTokenStream
  AllServed
