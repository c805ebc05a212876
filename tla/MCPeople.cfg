CONSTANTS
  Requests = {t1, t2, t3}
  Revisions = {d1, d2}
  MaxRec = 3
  Exports = {d1, d2}
  MaxRetries = 2
  None = None
  Volunteers = {t1, t2, t3, u}
  Staff = {s}
  Capacities = {1, 2}
  WaitlistCap = 3
  MaxAsked = 1
  Logs = {t1, t2, t3}
  HoursIn <- MCHoursIn
  Approvers = {d1, d2}
  Thresholds = {2, 5}
  MaxEdited = 1
  Payments = {t1, t2, t3}
  Payers = {d1, d2}
  Amounts = {1, 2, 3}
  T4A = 2
  HardBlock = 4
SPECIFICATION MCSpec
SYMMETRY Symmetry
INVARIANT OneCurrent ServedOnce ReadyIsWhole PlacesAreShared CancelledIsEmpty TotalIsApproved CrossedIsMarked CeilingHolds
PROPERTY AnswersAreTrue WaitlistInOrder
