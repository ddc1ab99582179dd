SPECIFICATION SessionSpec
CONSTANTS
  Readers = 2
  MaxRetry = 2
  MaxEcm = 3
  Lists <- MCLists
  Inherited <- MCInherited
  MaxPolls = 5
  Depth = 2
  MaxExchange = 1
INVARIANT SessionTypeOK
INVARIANT NoHandleLost
INVARIANT AnswersThisEcm
INVARIANT TunedAsListed
INVARIANT PathMade
INVARIANT KeysOfOneCard
INVARIANT GivenBack
PROPERTY EcmEnds
PROPERTY StartEnds
