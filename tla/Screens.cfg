CONSTANTS
  Pipelines = {1, 2}
  Sources = {1}
  RunIds = {1, 2, 3}
  AlertKeys = {1, 2}
  MaxTime = 1
  MaxRows = 4
  NoRun = NoRun
  NoExecution = NoExecution
  NoRow = NoRow
  Nothing = Nothing
  PageSize = 1
  RecentLimit = 1
  SourceOf <- MCSourceOf
  RowsUnder <- MCRowsUnder
  MaxRequests <- MCMaxRequests
  Places <- MCPlaces
  Filters <- MCFilters
  WritesUnder <- MCWritesUnder
  Outcomes <- MCOutcomes
  AlertKinds <- MCAlertKinds
SPECIFICATION MCSpec
INVARIANTS
  SettledIsCurrent
  NothingSkipped
  DetailAddsUp
  LatestIsRecent
PROPERTIES
  RequestEnds
CHECK_DEADLOCK FALSE
