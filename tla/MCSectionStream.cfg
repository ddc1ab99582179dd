SPECIFICATION Spec
CONSTANTS
  Sections <- MCSections
  Length <- MCLength
  HeaderParts = 2
  LongParts = 3
  Says <- MCSays
  Noise <- MCNoise
  Elems <- MCElems
  Null = Null
  Stuffing = Stuffing
  Room = 7
  MaxPackets = 5
  MaxDamaged = 1
INVARIANT TypeOK
INVARIANT InOnePlace
INVARIANT RefsAreUses
INVARIANT WholeBehindHeader
INVARIANT KeepsUp
PROPERTY IsChannel
