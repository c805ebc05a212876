CONSTANTS
  Attempts = {i1}
  Workers = {w1, w2}
  Tasks = {t1, t2}
  ObsIds = {o1, o2}
  None = None
  MaxGen = 2
  MaxCopies = 1
  Exceptions = FALSE
  NullableJoinLocks = FALSE
  MaxObservations = 0
  ThresholdPct = 50
  RuntimeEnabled = TRUE
  SlowTasks = FALSE
SPECIFICATION FairSpec
PROPERTY ReceivedIsDecided
CHECK_DEADLOCK FALSE
