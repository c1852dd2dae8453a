\* Capacities that need padding and, for three rows, exceed the refresh runner's;
\* a pool that grows three times.  The process stops when it raises (a batch or
\* a row beyond the last bucket, a pool at its cap), hence no deadlock check.
CONSTANTS
  DraftCapacities = {2, 3}
  RefreshCapacities = {2}
  DraftWidths = {2, 4}
  RefreshWidths = {1, 2, 4}
  K = 1
  MaxAccept = 1
  MaxRows = 3
  MaxPrompt = 1
  MaxWork = 7
  PrecaptureWidths = {0, 1}
  InitialPoolSize = 3
  MaxPoolSize = 9
  GrowChunk = 2
SPECIFICATION Spec
INVARIANTS
  GraphTypeOK
  ReplayCurrent
PROPERTIES
  CurrentGraphsKept
  ReadsOwnRows
CHECK_DEADLOCK FALSE
