SPECIFICATION Measuring
CONSTANTS
  Columns <- MCColumns
  DataTypes <- MCDataTypes
  FreshnessColumn <- MCFreshnessColumn
  NullContract <- MCNullContract
  FreshnessThreshold = 48
  ChangeThreshold = 25
  NoColumn = NoColumn
  NoValue = NoValue
  Table = "marts"
  Observations <- MCObservations
INVARIANTS
  DriftReconstructs
  RecoveryIsReported
