\* One slot to start with, growth by 1 or by n, a cap of 4 (slots 1 to 3).
CONSTANTS
  c1 = c1
  c2 = c2
  Clients = {c1, c2}
  Layers = {0, 1}
  Zero = Zero
  MaxAlloc = 2
  InitialPoolSize = 2
  MaxPoolSize = 4
  GrowChunk = 1
SPECIFICATION Spec
INVARIANTS
  PoolTypeOK
  SlotsConserved
  SentinelStaysZero
  CapRespected
PROPERTIES
  BuffersReplacedVisibly
  ImplementsPrivateSlots
SYMMETRY ClientSymmetry
