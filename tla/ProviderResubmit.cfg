CONSTANTS
  Attempts = {a1}
  Workers = {w1}
  Sweepers = {}
  ObsIds = {o1}
  None = None
  MaxGen = 2
  MaxMessages = 1
SPECIFICATION Spec
PROPERTY NoSubmitOfKnownPayment
CHECK_DEADLOCK FALSE
