CONSTANTS
  Scenarios <- MCScenarios
  MaxFaults = 3
SPECIFICATION FairSpec
INVARIANTS
  NothingForgotten
  RestoredIsStandard
  PassIsEarned
  DamageReported
PROPERTIES
  EveryScenarioEnds
CHECK_DEADLOCK FALSE
