SPECIFICATION Spec
CONSTANTS
  a = a
  b = b
  none = none
  Clusters = {a, b}
  Requests <- UserRequests
  NoName = none
  MaxTrouble = 1
  Names = {"api", "apps"}
INVARIANTS
  RecordedResolves
  
  AccountFitsKey
  KnownAreBuildable
