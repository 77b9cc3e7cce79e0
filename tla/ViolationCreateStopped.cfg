SPECIFICATION Spec
CONSTANTS
  a = a
  b = b
  c = c
  none = none
  p1 = p1
  Clusters = {a}
  MasterIP <- OneNAT
  PoolSize = 2
  MaxClusters = 2
  NoName = none
  Procs = {p1}
  Launchable <- OneUser
  Interruptible = {}
  MaxCrashes = 0
  MaxFaults = 0
  MaxTrouble = 0
PROPERTIES
  CreateLeavesUp
CHECK_DEADLOCK FALSE
