SPECIFICATION FairSpec
CONSTANTS
  want = want
  other = other
  nowhere = nowhere
  Want = want
  Elsewhere = {other}
  Nowhere = nowhere
  MaxMoves = 2
  MaxFaults = 1
  Boots = 3
INVARIANTS
  StartMeansJoined
  VerdictIsTrue
PROPERTIES
  CommandReturns
CHECK_DEADLOCK FALSE
