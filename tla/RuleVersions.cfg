SPECIFICATION Spec
CONSTANTS
  r1 = r1
  m1 = m1
  m2 = m2
  e1 = e1
  e2 = e2
  p1 = p1
  p2 = p2
  low = low
  high = high
  a1 = a1
  a2 = a2
  Rule = {r1}
  Author = {a1, a2}
  Severity = {low, high}
  MaxVersion = 3
  MaxEdits = 1
  Faults <- CatalogFaults
  NONE = NONE
  Match = {m1, m2}
  RuleOf <- OneRule
  VersionOf <- VersionEach
  Time <- OneTime
  Evaluator = {e1}
  Promoter = {p1}
  MaxSuppressions = 0
  MaxOps = 0
SYMMETRY Authors
INVARIANTS VersionsNumbered MatchesTraceable
CHECK_DEADLOCK FALSE
