CONSTANTS
  Attempts = {a1}
  Workers = {w1}
  Sweepers = {s1}
  ObsIds = {o1}
  None = None
  MaxGen = 2
  MaxMessages = 1
SPECIFICATION FairSpec
PROPERTY UncertainIsTriaged
CHECK_DEADLOCK FALSE
