SPECIFICATION Spec
CONSTANTS
  None = None
  TemporalWindow = 2
  MaxNodes = 10
  MaxEdges = 10
  MaxCandidates = 10
  DisabledStrategies = {}
  Evaluators = {e1, e2}
  Attachers = {a1}
  Analysts = {m1, m2}
  MaxSources = 2
  Catalog <- MCCatalog
  Windows <- MCWindows
  MaxRows = 3
  MaxDisturbances = 2
  SplitSizes = {1}
INVARIANTS TypeOK ComponentsExact EvaluatedStored GraphsHoldTogether
SYMMETRY Symmetry
CHECK_DEADLOCK FALSE
