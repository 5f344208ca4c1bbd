SPECIFICATION Spec
CONSTANTS
  f1 = f1
  f2 = f2
  a1 = a1
  a2 = a2
  d1 = d1
  d2 = d2
  Scan = {s1, s2}
  Finding = {f1, f2}
  Asset = {a1, a2}
  AssetOf <- AssetEach
  Detector = {d1, d2}
  DetectorOf <- DetectorEach
  Severity = {medium}
  Selections <- AllActive
  Faults <- LostWork
  MaxTriage = 1
  Serial = TRUE
  NONE = NONE
SYMMETRY ScanSymmetry
INVARIANTS OpenMeansDetected
PROPERTIES LifecyclePolicy
CHECK_DEADLOCK FALSE
