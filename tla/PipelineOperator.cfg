SPECIFICATION Spec
CONSTANTS
  Columns <- MCColumns
  DataTypes <- MCDataTypes
  FreshnessColumn <- MCFreshnessColumn
  NullContract <- MCNullContract
  FreshnessThreshold = 1
  ChangeThreshold = 25
  NoColumn = NoColumn
  NoValue = NoValue
  NoRun = NoRun
  NoContent = NoContent
  NoArtifact = NoArtifact
  NoRow = NoRow
  NoHealth = NoHealth
  Unread = Unread
  Runs = {r1, r2}
  Operators = {op}
  Retries = 0
  MaxActiveRuns = 1
  GivenRows <- MCGivenRows
  MaxClock = 1
  MaxManual = 1
  RawContents <- MCOneContent
  StagingOf <- MCStagingOne
  MartBuilds <- MCMartsOne
PROPERTIES
  KeepsLedger
CHECK_DEADLOCK FALSE
