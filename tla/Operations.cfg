CONSTANTS
  alice = alice
  c1 = c1
  c2 = c2
  old = old
  new = new
  dag = dag
  absent = absent
  k1 = k1
  day = day
  NoId = NoId
  NoDate = NoDate
  Users = {alice}
  Clients = {c1, c2}
  Passwords = {old, new}
  Dags = {dag}
  UserOf <- MCUserOf
  RoleSets <- MCRoleSets
  Wishes <- MCWishes
  Plans <- MCPlans
  MaxAttempts <- MCMaxAttempts
SPECIFICATION FairSpec
CONSTRAINT Explored
INVARIANTS
  TokensEarned
  WritesWarranted
PROPERTIES
  TriggersKeepContract
  EveryAttemptEnds
CHECK_DEADLOCK FALSE
