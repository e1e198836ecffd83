CONSTANTS
  c1 = c1
  c2 = c2
  c3 = c3
  w1 = w1
  w2 = w2
  Nothing = Nothing
  Calls = {c1, c2, c3}
  Processes = {w1, w2}
  ProcessOf <- MCProcessOf
  Limit = 2
  Window = 1
  MaxTime = 3
  MaxResets = 1
SPECIFICATION LimiterSpec
SYMMETRY Symmetry
INVARIANTS TypeLimiter LimitHolds RefusedWhenSpent
CHECK_DEADLOCK FALSE
