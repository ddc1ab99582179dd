SPECIFICATION Spec
CONSTANTS
  p1 = p1
  p2 = p2
  e1 = e1
  Clear = Clear
  Null = Null
  Program = {p1}
  EcmPid = {e1}
  Kinds <- KeyKinds
  Damaged = {}
  MaxFaults = 0
  Strip = TRUE
  SyncRun = 2
  MaxWait = 5
  Answers = {"purchased"}
  MaxUnits = 7
  MaxBlock = 3
INVARIANT TypeOK
INVARIANT NotGarbled
INVARIANT WaitsForKeys
