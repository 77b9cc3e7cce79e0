SPECIFICATION FairMediumSpec
CONSTANTS
  MaxMediumFaults = 3
  MaxMediumCrashes = 3
INVARIANTS
  BootsWired
PROPERTIES
  MediumGetsMade
CHECK_DEADLOCK FALSE
