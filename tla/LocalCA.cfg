SPECIFICATION FairSpec
CONSTANTS
  p1 = p1
  p2 = p2
  k1 = k1
  k2 = k2
  Procs = {p1, p2}
  Keys = {k1, k2}
  Commands = {"create", "delete", "trust", "untrust"}
  MaxFaults = 1
  MaxCrashes = 1
INVARIANTS
  OneCA
  MarkedIsTrusted
PROPERTIES
  CertificatesIssued
CHECK_DEADLOCK FALSE
