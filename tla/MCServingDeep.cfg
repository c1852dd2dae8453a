\* Two requests that live longer: several refreshes in a row, accepted paths of
\* two tokens, and prefixes found in the radix cache; the loop is fair.
CONSTANTS
  r1 = r1
  r2 = r2
  Reqs = {r1, r2}
  Long = {r1}
  PromptLen <- MCPromptLen
  MaxNew = 5
  MaxAccept = 2
  K = 2
  MaxRunning = 2
  ChunkSize = 2
  MaxHit = 1
  Zero = Zero
  InitialPoolSize = 4
  MaxPoolSize = 64
  GrowChunk = 4
SPECIFICATION FairSpec
PROPERTIES
  ImplementsReference
  AllServed
