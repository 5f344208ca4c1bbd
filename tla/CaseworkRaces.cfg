SPECIFICATION Spec
CONSTANTS
  NoOne = NoOne
  LinkWindow = 1
  LinkThreshold = 20
  LinkRulesOff = {"technology_correlation"}
  Processes = {p1, p2}
  FindingTable <- MCFindings
  AssetTable <- MCAssets
  EndpointTable <- MCEndpoints
  TechnologyTable <- MCTechnologies
  InitialEvidence <- MCInitialEvidence
  Actors = {ann, NoOne}
  MaxInvestigations = 2
  MaxClusters = 1
  MaxOperations = 3
  MaxFailures = 1
  ReportSubjects <- MCSubjects
  MaxReports = 2
INVARIANTS StatusTrailBalanced WindowCoversEvidence OneEventPerFact ReopensAreReal AcceptedHoldsItems ReportsNumbered
SYMMETRY Symmetry
CHECK_DEADLOCK FALSE
