CONSTANTS
  Pipelines = {1, 2}
  Sources = {1}
  RunIds = {1, 2}
  AlertKeys = {1, 2}
  MaxTime = 4
  MaxRows = 4
  NoRun = NoRun
  NoExecution = NoExecution
  Window = 3
  Bucket = 2
  IssueLimit = 1
  HealthLimit = 1
  MaxDisturbances = 3
  SourceOf <- MCSourceOf
  Scopes <- MCScopes
  Outcomes <- MCOutcomes
  AlertKinds <- MCAlertKinds
SPECIFICATION Spec
CONSTRAINT Explored
INVARIANTS
  ProblemsReported
  FailedIsCritical
  HealthyHidesNothing
  CutKeepsWorst
  FiguresAddUp
  HistoryRepresented
