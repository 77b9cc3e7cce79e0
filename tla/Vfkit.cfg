SPECIFICATION FairMacSpec
CONSTANTS
  MaxMacFaults = 2
  MaxMacCrashes = 1
INVARIANTS
  BootsInstalledDisk
  RunningIsUp
PROPERTIES
  InstalledIsBooted
  WatchdogRevives
