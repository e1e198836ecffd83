CONSTANTS
  r1 = r1
  r2 = r2
  w1 = w1
  w2 = w2
  None = None
  Requests = {r1, r2}
  Workers = {w1, w2}
  Databases <- MCDatabases
  Home <- MCHome
  Kinds <- MCKinds
  MaxBegun = 4
  MaxWrites = 2
  MaxOutages = 2
SPECIFICATION Spec
INVARIANTS TypeOK RestoreIsAlone
PROPERTIES ReplacedIsSaved
CHECK_DEADLOCK FALSE
