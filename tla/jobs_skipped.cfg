SPECIFICATION Spec
CONSTANTS
  i1 = i1
  i2 = i2
  None = None
  Issues = {i1, i2}
  Rank <- ByPriority
  Filed = {i1}
  LongNamed = {i2}
  Slots = 2
  RelistEvery = 1
  MaxRuns = 0
  SlugLength = 1
  DefaultRetries = 1
  KnownSkills <- Skills
  Workflows <- TwoWorkflows
  MergedList = TRUE
  MaxJobRuns = 1
  MaxQuestions = 1
  MaxFaults = 1
CHECK_DEADLOCK FALSE
INVARIANT EveryJobIsRun
