SPECIFICATION Spec
CONSTANTS
  W = 32
  Round = 4
  Cards <- MCCards
  Scrambles <- MCScrambles
  Packets <- MCPackets
INVARIANT RoundTrip
INVARIANT LatestKeys
