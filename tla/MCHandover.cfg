CONSTANTS
  Recipients = {r1}
  Workers = {w1, w2}
  Publishers = {p1, p2}
  MaxAttempts = 2
  PublishMax = 2
  MaxGen = 2
  MaxRows = 1
  MaxClaims = 3
  MaxCopies = 2
  None = None
  q1 = q1
  q2 = q2
  q3 = q3
  n1 = n1
  n2 = n2
  i1 = i1
  i2 = i2
  i3 = i3
  b1 = b1
  b2 = b2
  c1 = c1
  BulkRequests = {q1, q2, q3}
  BillRequests = {n1, n2}
  Identity <- MCIdentity
  Batch <- MCBatch
  Bill <- MCBill
  Servers = {p1, p2}
  Consumers = {w1, w2}
  Absent = Absent
SPECIFICATION MCSpec
SYMMETRY Symmetry
INVARIANT SupersededIsQuiet DeliveredIsReceived WorkIsCarried HandedOverOnce AnswersAreTrue
PROPERTY LeaseIsExclusive
