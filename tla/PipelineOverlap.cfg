SPECIFICATION Spec
CONSTANTS
  Columns <- MCColumns
  DataTypes <- MCDataTypes
  FreshnessColumn <- MCFreshnessColumn
  NullContract <- MCNullContract
  FreshnessThreshold = 1
  ChangeThreshold = 25
  NoColumn = NoColumn
  NoValue = NoValue
  NoRun = NoRun
  NoContent = NoContent
  NoArtifact = NoArtifact
  NoRow = NoRow
  NoHealth = NoHealth
  Unread = Unread
  Runs = {r1, r2}
  Operators = {}
  Retries = 1
  MaxActiveRuns = 2
  GivenRows <- MCGivenRows
  MaxClock = 0
  MaxManual = 0
  RawContents <- MCTwoContents
  StagingOf <- MCStagingTwo
  MartBuilds <- MCMartsTwo
CONSTRAINT Explored
SYMMETRY MCRunSymmetry
INVARIANTS
  OwnNodeResults
  BaselineStillLatest
  DetectsWhatWasMeasured
  IncidentsMatchHealth
PROPERTIES
  NodeResultsSettle
CHECK_DEADLOCK FALSE
