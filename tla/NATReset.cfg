SPECIFICATION ResetSpec
CONSTANTS
  a = a
  b = b
  c = c
  none = none
  p1 = p1
  Clusters = {a, b, c}
  MasterIP <- Mixed
  PoolSize = 2
  MaxClusters = 2
  NoName = none
  Procs = {p1}
  Launchable <- OneUser
  Interruptible = {"create", "start", "stop", "delete"}
  MaxCrashes = 1
  MaxFaults = 1
  MaxTrouble = 1
  OneAtATime = TRUE
  ResetInterruptible = TRUE
INVARIANTS
  PrefixRecorded
  UniqueAddresses
  RecordIsTruthful
  DomainNamesOwnAddress
PROPERTIES
  ResetSparesClusters
  ResetReconciles
  RegistrySpec
SYMMETRY EitherNAT
