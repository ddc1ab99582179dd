SPECIFICATION Spec
CONSTANTS
  Size = 2
  MaxBlocks = 2
  MaxRetry = 1
  Block <- MCBlock
  NULL = NULL
  FREED = FREED
INVARIANT NormalExitFinishes
