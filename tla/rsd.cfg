SPECIFICATION Spec
CONSTANTS
  t1 = t1
  t2 = t2
  c1 = c1
  c2 = c2
  None = None
  Threads = {t1, t2}
  Clients = {1, 2, 3, 4}
  Creds = {c1, c2}
  Stored = {c1}
  CacheSize = 1
  Tries = 1
  TransientMax = 2
  MaxOwner = 1
  Mixes <- Together
CHECK_DEADLOCK FALSE
INVARIANTS TypeRsd CacheIsUsable NoClientLeaks CallsAreNotCut VerifiedUnlessRaced
PROPERTY RequestsEnd
