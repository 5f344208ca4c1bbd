SPECIFICATION Spec
CONSTANTS
  None = None
  Commands = {c1, c2}
  AssetTable <- TwoAssets
  Canonical <- Same
  FindingAsset <- OneFinding
  EvidenceOf <- Investigations
  ProvidersOff = {"certificate", "dns", "technology"}
  External = TRUE
  Weights <- CommandWeights
  Parsed <- Versions
  ReputationTTL = 1
  RecentWindow = 1
  Technologies <- SomeTechnologies
  Constraints <- SomeConstraints
  Jobs <- SomeJobs
  FeedAnswers = {"benign", None}
  Levels = {"low"}
  InitialTechs <- OldTechs
  InitialCatalog <- OldCatalog
  InitialScores <- EarlierScore
  MaxTime = 2
  MaxJobs = 2
  MaxDisturbances = 1
INVARIANTS RowsValid MatchAnnouncedOnce LastSeenKept RisesTraceable InvestigationSupported
SYMMETRY Symmetry
CHECK_DEADLOCK FALSE
