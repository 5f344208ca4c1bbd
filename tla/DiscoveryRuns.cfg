SPECIFICATION FairSpec
CONSTANTS
  s1 = s1
  s2 = s2
  Asset = {1, 2}
  Run = {s1, s2}
  Data = {1}
  Lifecycle = {"RETIRED"}
  JobsOf <- Overlap
  MaxTime = 3
  None = None
  MaxConcurrency = 1
  Decisions = {"AUTHORIZED", "REVOKED"}
  Limited = {s1}
  Faults = {"persist", "crash", "cancel"}
INVARIANTS WindowExact ScanAccountsForEveryJob OpenPortsRecorded
PROPERTIES RunsEnd
CHECK_DEADLOCK FALSE
