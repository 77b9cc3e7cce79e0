SPECIFICATION FairSpec
CONSTANTS
  MaxFaults = 2
  MaxCrashes = 2
INVARIANTS
  StorageComesLast
  TemplateFirst
PROPERTIES
  RetriesGetThrough
CHECK_DEADLOCK FALSE
