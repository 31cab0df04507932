SPECIFICATION FairSpec
CONSTANTS
  Jobs = {j1, j2}
  Incidents = {stale, drift, nulls, growth}
  stale = stale
  drift = drift
  growth = growth
  nulls = nulls
  Type <- MCType
  Rank <- MCRank
  Reports <- MCReports
  Targets = {All, growth}
  Ages <- MCAges
  ThresholdHours = 1
  MaxClock = 1
  All = All
  NoValue = NoValue
  NoRow = NoRow
  NoContext = NoContext
  NotStarted = NotStarted
  Ended = Ended
INVARIANTS WaitsGoForward DatedContextsAreCurrent BatchesCover ContextsConform
PROPERTY EveryJobEnds
CHECK_DEADLOCK FALSE
