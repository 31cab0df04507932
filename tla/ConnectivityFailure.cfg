CONSTANTS
  alice = alice
  c1 = c1
  c2 = c2
  old = old
  new = new
  dag = dag
  absent = absent
  k1 = k1
  day = day
  NoId = NoId
  NoDate = NoDate
  Users = {alice}
  Clients = {c1, c2}
  Passwords = {old}
  Dags = {dag}
  UserOf <- MCUserOf
  RoleSets <- MCRoleSets
  Wishes <- MCWishes
  Plans <- MCPlans
  MaxAttempts <- MCMaxAttempts
SPECIFICATION Spec
INVARIANTS
  ConnectivityIs503
CHECK_DEADLOCK FALSE
