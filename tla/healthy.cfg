CONSTANTS
  r1 = r1
  r2 = r2
  w1 = w1
  w2 = w2
  None = None
  Requests = {r1, r2}
  Workers = {w1, w2}
  Databases <- MCDatabases
  Home <- MCHome
  Kinds <- MCKinds
  MaxBegun = 5
  MaxWrites = 0
  MaxOutages = 2
SPECIFICATION Spec
INVARIANT HealthyIsServed
CHECK_DEADLOCK FALSE
