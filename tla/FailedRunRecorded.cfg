SPECIFICATION Spec
CONSTANTS
  Columns <- MCColumns
  DataTypes <- MCDataTypes
  FreshnessColumn <- MCFreshnessColumn
  NullContract <- MCNullContract
  FreshnessThreshold = 1
  ChangeThreshold = 25
  NoColumn = NoColumn
  NoValue = NoValue
  NoRun = NoRun
  NoContent = NoContent
  NoArtifact = NoArtifact
  NoRow = NoRow
  NoHealth = NoHealth
  Unread = Unread
  Runs = {r1, r2}
  Operators = {}
  Retries = 0
  MaxActiveRuns = 1
  GivenRows <- MCGivenRows
  MaxClock = 0
  MaxManual = 0
  RawContents <- MCOneContent
  StagingOf <- MCStagingOne
  MartBuilds <- MCMartsOne
INVARIANTS
  RecordedRunsSucceed
CHECK_DEADLOCK FALSE
