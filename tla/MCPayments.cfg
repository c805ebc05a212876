CONSTANTS
  g1 = g1
  h1 = h1
  f1 = f1
  n1 = n1
  m1 = m1
  p1 = p1
  r1 = r1
  r2 = r2
  y1 = y1
  Attempts = {a1, a2}
  Workers = {w1, w2}
  Tasks = {t1}
  ObsIds = {r1, r2}
  None = None
  MaxGen = 2
  MaxCopies = 2
  Exceptions = TRUE
  NullableJoinLocks = TRUE
  MaxObservations = 2
  ThresholdPct = 50
  RuntimeEnabled = TRUE
  SlowTasks = TRUE
  Callbacks = {a1, a2}
  CallbackWorkers = {v1}
  Sweepers = {s1}
  MAX_CALLBACK_ATTEMPTS = 3
  NoCallback = NoCallback
  Settings = settings
  Charges <- MCCharges
  Eligible <- MCEligible
  CreatedAt <- MCCreatedAt
  Years = {y1}
  InYear <- MCInYear
  ReceiptWorkers = {x1}
  MaxMails = 1
  Nil = Nil
  Gifts = {g1, h1}
  Recurring = {h1}
  Fees = {f1}
  Renewals = {n1, m1}
  Failing = {n1}
  Plan = p1
  Refunds = {r1, r2}
  Amount = 2
  EventWorkers = {w1, w2}
  Cases <- MCCases
SPECIFICATION MCSpec
SYMMETRY Symmetry
INVARIANT TerminalBatchIsTrue DeliveredIsReceived BudgetIsExact
INVARIANT SentIsMailed BooksAgree ProcessedIsRecorded RefundsCovered SucceededIsRefunded
PROPERTY DecisionsInLeaseOrder KeepsPromise
CHECK_DEADLOCK FALSE
