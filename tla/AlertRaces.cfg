SPECIFICATION Spec
CONSTANTS
  r1 = r1
  m1 = m1
  m2 = m2
  e1 = e1
  e2 = e2
  p1 = p1
  p2 = p2
  low = low
  high = high
  a1 = a1
  a2 = a2
  Rule = {r1}
  Author = {}
  Severity = {low}
  MaxVersion = 1
  MaxEdits = 0
  Faults <- AllFaults
  NONE = NONE
  Match = {m1}
  RuleOf <- OneRule
  VersionOf <- FirstVersion
  Time <- TwoTimes
  Evaluator = {e1, e2}
  Promoter = {}
  MaxSuppressions = 1
  MaxOps = 1
SYMMETRY Evaluators
INVARIANTS SuppressedBirthsStaySilent CaughtUp
PROPERTIES OnlyLateSuppressionMissed
CHECK_DEADLOCK FALSE
