SPECIFICATION FairSpec
CONSTANTS
  Size = 1
  MaxBlocks = 2
  MaxRetry = 1
  Block <- MCBlock
  NULL = NULL
  FREED = FREED
PROPERTY StopTerminates
PROPERTY CapturedIsWritten
