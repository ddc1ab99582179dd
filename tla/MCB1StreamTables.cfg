SPECIFICATION Spec
CONSTANTS
  p1 = p1
  p2 = p2
  e1 = e1
  Clear = Clear
  Null = Null
  Program = {p1, p2}
  EcmPid = {e1}
  Kinds <- TableKinds
  Damaged <- TableDamaged
  MaxFaults = 2
  Strip = TRUE
  SyncRun = 2
  MaxWait = 3
  Answers = {"purchased", "unpurchased", "error"}
  MaxUnits = 6
  MaxBlock = 2
INVARIANT InOrder
INVARIANT NothingLost
INVARIANT NothingOverlooked
INVARIANT TablesFollow
INVARIANT SbufLimit
