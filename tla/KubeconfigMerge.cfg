SPECIFICATION Spec
CONSTANTS
  a = a
  b = b
  t1 = t1
  t2 = t2
  none = none
  own = own
  p1 = p1
  p2 = p2
  None = none
  Foreign = own
  Targets = {t1, t2}
  Clusters = {a, b}
  Procs = {p1, p2}
  MaxFaults = 1
  MaxCrashes = 1
  MaxOverlaps = 1
INVARIANTS
  ContextsResolve
  RecordedIsMerged
  DeleteLeavesNoEntries
SYMMETRY AnyName
