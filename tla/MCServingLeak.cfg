\* Two requests with one-token prompts are enough to empty a batch.
CONSTANTS
  r1 = r1
  r2 = r2
  Reqs = {r1, r2}
  Long = {}
  PromptLen <- MCPromptLen
  MaxNew = 3
  MaxAccept = 1
  K = 2
  MaxRunning = 2
  ChunkSize = 2
  MaxHit = 0
  Zero = Zero
  InitialPoolSize = 4
  MaxPoolSize = 64
  GrowChunk = 4
SPECIFICATION Spec
INVARIANT
  NothingLeaked
