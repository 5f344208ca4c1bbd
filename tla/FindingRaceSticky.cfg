SPECIFICATION Spec
CONSTANTS
  f1 = f1
  f2 = f2
  a1 = a1
  a2 = a2
  d1 = d1
  d2 = d2
  Scan = {s1, s2}
  Finding = {f1}
  Asset = {a1}
  AssetOf <- OneAsset
  Detector = {d1}
  DetectorOf <- DetectorEach
  Severity = {medium}
  Selections <- AllActive
  Faults <- NoFaults
  MaxTriage = 1
  Serial = FALSE
  NONE = NONE
INVARIANTS StickyDecision
CHECK_DEADLOCK FALSE
