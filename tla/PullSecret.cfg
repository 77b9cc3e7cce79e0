SPECIFICATION FairSpec
CONSTANTS
  p1 = p1
  p2 = p2
  Procs = {p1, p2}
  Commands = {"set", "login", "create"}
  MaxFaults = 1
  MaxCrashes = 1
INVARIANTS
  InstallsValid
PROPERTIES
  LoginStoresVetted
  LoginEnds
