CONSTANTS
  Slots = {1, 2}
  Citizens = {c1}
  Bookings = {b1, b2}
  Requests = {r1, r2}
  Capacities <- MCCapacities
  ExclusiveCreates = {TRUE, FALSE}
  EventStatuses = {"open", "closed"}
  NeedsConfirmation = {1}
  MaxActive = 2
  MaxReschedules = 1
  None = None
  Modifications <- MCModifications
SPECIFICATION MCSpec

INVARIANT  NoCircularWait

