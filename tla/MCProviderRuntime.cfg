CONSTANTS
  Attempts = {a1}
  Workers = {w1, w2}
  Sweepers = {s1}
  ObsIds = {o1}
  None = None
  MaxGen = 2
  MaxMessages = 2
SPECIFICATION Spec
SYMMETRY Symmetry
INVARIANT AtMostOneSubmit FinalityIsTrue
PROPERTY EvidenceInClaimOrder KeepsPromise
CHECK_DEADLOCK FALSE
