SPECIFICATION Spec
CONSTANTS
  p1 = p1
  p2 = p2
  e1 = e1
  Clear = Clear
  Null = Null
  Program = {p1}
  EcmPid = {e1}
  Kinds <- RekeyKinds
  Damaged = {}
  MaxFaults = 0
  Strip = TRUE
  SyncRun = 2
  MaxWait = 2
  Answers = {"purchased"}
  MaxUnits = 8
  MaxBlock = 4
INVARIANT NoEcmInHead
