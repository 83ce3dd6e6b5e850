SPECIFICATION ListSpec
CONSTANTS
  Items = {i1, i2, i3}
  NULL = NULL
  Data <- MCData
  Ranked <- MCRanked
  Rank <- MCRank
  Lengths <- MCLengths
INVARIANTS
  RingInv
  WalksAgree
  SortsInPlace
PROPERTIES
  FreesAllOnce
  ImplementsItemList
  ListCallsEnd
