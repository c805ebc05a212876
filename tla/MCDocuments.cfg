CONSTANTS
  d1 = d1
  d2 = d2
  d3 = d3
  w1 = w1
  w2 = w2
  p1 = p1
  p2 = p2
  Docs = {d1, d2, d3}
  Root <- MCRoot
  Threats = {d3}
  Held = {d1}
  Workers = {w1, w2}
  Purgers = {p1, p2}
  MaxRetries = 1
  MaxFaults = 2
  Cases <- MCCases
  None = None
SPECIFICATION Spec
INVARIANT FilesAreKept
PROPERTY JudgedOnce
CHECK_DEADLOCK FALSE
