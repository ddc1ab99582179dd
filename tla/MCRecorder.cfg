SPECIFICATION Spec
CONSTANTS
  Size = 2
  MaxBlocks = 4
  MaxRetry = 1
  Block <- MCBlock
  NULL = NULL
  FREED = FREED
INVARIANT TypeOK
INVARIANT StreamAccounted
INVARIANT GaplessRecording
INVARIANT ReaderGoneStops
INVARIANT ExitIsCertain
INVARIANT NoLostWakeup
PROPERTY QueueIsFifo
