SPECIFICATION Spec
CONSTANTS
  es1 = es1
  ecm1 = ecm1
  both = both
  pmt1 = pmt1
  pmt2 = pmt2
  d1 = d1
  d2 = d2
  d3 = d3
  d4 = d4
  EsPid <- MCEsPid
  EcmPid <- MCEcmPid
  PmtPid <- MCPmtPid
  EmmPid <- MCEmmPid
  Dec <- MCDec
  NULL = NULL
  NONE = NONE
  CLEAR = CLEAR
  RefMod = 8
  Pmts <- MCPmts
  Pats <- MCPats
SYMMETRY Symmetry
INVARIANT TypeOK
INVARIANT RefsCounted
INVARIANT TargetsLive
INVARIANT EntriesCounted
PROPERTY BoundAsAnnounced
PROPERTY KeepsDecryptor
