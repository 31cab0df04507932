SPECIFICATION FairSpec
CONSTANTS
  Admins = {a, b}
  Sections = {"notifications"}
  MaxRequests = 2
  Ids = {p, s, t, u}
  p = p
  s = s
  Production = Production
  Staging = Staging
  Corvetra = Corvetra
  Warehouse = Warehouse
  Keys = {Production, Staging, Qa}
  Names = {Corvetra, Warehouse, Lab, Blank}
  BlankNames = {Blank}
  Seeded <- TwoEnvironments
  SeededDefault = p
  SeededInUse <- ProductionInUse
  SeededName = Corvetra
  NoId = NoId
  NoKey = NoKey
  NoName = NoName
  NoRequest = NoRequest
  NoAnswer = NoAnswer
INVARIANT ChecksHold
PROPERTIES KeepsRegistry EveryRequestIsAnswered
CHECK_DEADLOCK FALSE
