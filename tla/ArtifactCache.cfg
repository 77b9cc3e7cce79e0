SPECIFICATION FairSpec
CONSTANTS
  p1 = p1
  p2 = p2
  Procs = {p1, p2}
  Darwin = TRUE
  MaxFaults <- Bounds
  MaxCrashes = 1
  MaxOverlaps = 1
INVARIANTS
  UsesWhole
PROPERTIES
  RetriesGetThrough
