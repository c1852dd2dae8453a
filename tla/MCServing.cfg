\* Three requests, one of them longer than a chunk; the pool grows on demand and
\* its cap is out of reach.
CONSTANTS
  r1 = r1
  r2 = r2
  r3 = r3
  Reqs = {r1, r2, r3}
  Long = {r1}
  PromptLen <- MCPromptLen
  MaxNew = 3
  MaxAccept = 1
  K = 2
  MaxRunning = 3
  ChunkSize = 2
  MaxHit = 0
  Zero = Zero
  InitialPoolSize = 4
  MaxPoolSize = 64
  GrowChunk = 4
SPECIFICATION Spec
INVARIANTS
  ServingTypeOK
  RowsAligned
  ServedOnce
  SlotsAccounted
PROPERTIES
  LeaksOnlyWhenEmptied
  ImplementsReference
