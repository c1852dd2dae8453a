CONSTANTS
  r1 = r1
  r2 = r2
  Reqs = {r1, r2}
  Prompt <- MCPrompt
  D = 3
  MaxDepth = 2
  AllocLen = 3
  Modes <- MCTreeModes
SPECIFICATION Spec
INVARIANTS ContextIntact
CHECK_DEADLOCK FALSE
