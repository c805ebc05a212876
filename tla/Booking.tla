------------------------------- MODULE Booking -------------------------------
(***************************************************************************)
(* Appointment booking: the slots citizens reserve and the life of a       *)
(* booking, under concurrent requests of the GovStack Scheduler API, staff *)
(* and the periodic tasks.                                                 *)
(*                                                                         *)
(* Source: apps/appointments/services/booking.py, slots.py,                *)
(*         govstack_appointment.py, govstack_event.py (modify, delete),    *)
(*         tasks.py.                                                       *)
(*                                                                         *)
(* A request starts with its unlocked reads, takes its row locks one by    *)
(* one (SELECT FOR UPDATE), and commits; it may fail at any point before,  *)
(* which rolls everything back: every BookingError, an expired notice or   *)
(* frequency window, a lost connection and a deadlock the database breaks  *)
(* are Abort.  Operations that lock one row are a single action.  Time is  *)
(* abstracted: a notice window or a slot's end may have come or not.       *)
(* A citizen's ClientNoShowRecord is its row lock; its counters are left   *)
(* out, with the suspension they may lead to (a refusal, Abort).           *)
(* Slot ids are taken in their canonical spelling, each once per call.      *)
(***************************************************************************)
EXTENDS Integers, FiniteSets, FiniteSetsExt

CONSTANTS
  Slots,              \* Slot primary keys, in the order of their sorted strings
  Citizens, Bookings, \* primary keys
  Requests,           \* requests in progress at the same time
  Capacities,         \* Capacities[s]: the capacities slot s may be given
  ExclusiveCreates,   \* the exclusive flags creating calls carry
  EventStatuses,      \* the statuses event_modify calls carry
  NeedsConfirmation,  \* slots whose type has requires_staff_confirmation
  MaxActive,          \* max_active_bookings_per_citizen
  MaxReschedules,     \* max_reschedule_count
  Modifications,      \* the <<event_id, status_id, exclusive>> calls carry
  None

ASSUME SlotsAssumption == Slots \subseteq Nat /\ IsFiniteSet(Slots)
ASSUME BookingsAssumption == IsFiniteSet(Bookings)
ASSUME CapacitiesAssumption == Capacities \in [Slots -> SUBSET (Nat \ {0})]
ASSUME NoneAssumption ==
  /\ None \notin Slots \cup Citizens \cup Bookings
  /\ None \notin {"pending", "confirmed", "completed", "cancelled", "rejected"}
  /\ None \notin BOOLEAN

\* Flags are Booleans, and appointment_modify refuses any status that is not in
\* _SUPPORTED_STATUS_TRANSITIONS.
ASSUME CallsAssumption ==
  /\ ExclusiveCreates \subseteq BOOLEAN
  /\ EventStatuses \subseteq {"open", "full", "closed"}
  /\ Modifications \subseteq (Slots \cup {None})
       \X {"confirmed", "completed", "cancelled", "rejected", None} \X {TRUE, FALSE, None}

VARIABLES
  slot,      \* slot[s]: status, spaces_used and capacity
  booking,   \* booking[b]: the Booking row; status "none" when there is none
  request    \* request[r]: its operation, unlocked reads and row locks

vars == <<slot, booking, request>>

\* A slot is "open" (available or partial: they differ in spaces_used = 0 only), "full",
\* or "closed" (blocked, cancelled or completed).
Live == {"pending", "confirmed"}
Holding == Live \cup {"completed"}       \* statuses that keep their space
Terminal == {"completed", "cancelled", "rejected"}

NoBooking == [status |-> "none", slot |-> None, citizen |-> None, noShow |-> FALSE,
              exclusive |-> FALSE, from |-> None, count |-> 0]

\* kind: what the request does.  sawEnded, sawExclusive: what a call
\* that uses them has read without a lock (a booking in a terminal status, with
\* the exclusive flag).  todo, held: slot locks to take and taken.  locked,
\* record: the locks of the booking and of its citizen's ClientNoShowRecord.
Idle == [kind |-> "idle", citizen |-> None, booking |-> None, target |-> None,
         status |-> None, exclusive |-> None, sawEnded |-> FALSE,
         sawExclusive |-> FALSE, locked |-> FALSE, record |-> "none",
         todo |-> {}, held |-> {}]

\* Slots as event_create and generate_slots_for_range make them.
Init ==
  /\ \E capacity \in [Slots -> UNION {Capacities[s] : s \in Slots}] :
       /\ \A s \in Slots : capacity[s] \in Capacities[s]
       /\ slot = [s \in Slots |-> [status |-> "open", used |-> 0, capacity |-> capacity[s]]]
  /\ booking = [b \in Bookings |-> NoBooking]
  /\ request = [r \in Requests |-> Idle]

----------------------------------------------------------------------------
(* What the services do to a slot row they have locked.                    *)

\* _update_slot_status and _unlock_slot: whatever the status was.
Recomputed(v) ==
  [v EXCEPT !.status = IF v.used = 0 \/ v.used < v.capacity THEN "open" ELSE "full"]

\* (Mutant.)  A closed slot keeps its count when a booking leaves it.
FreedIfOpen(v) ==
  IF v.status # "closed" THEN Recomputed([v EXCEPT !.used = @ - 1]) ELSE v

Freed(v) == Recomputed([v EXCEPT !.used = IF @ > 0 THEN @ - 1 ELSE 0])

Taken(v) == Recomputed([v EXCEPT !.used = @ + 1])

\* _lock_slot, the "exclusive" flag.
Locked(v) == [v EXCEPT !.status = "closed"]

\* (Mutant.)  The status alone decides.
OpenStatus(v) == v.status = "open"

Bookable(v) == v.status = "open" /\ v.used < v.capacity

\* The check constraint spaces_used <= capacity.
Fits(v, n) == v.used <= n

\* SELECT FOR UPDATE waits for the requests that hold the row.
SlotFree(s) == \A r \in Requests : s \notin request[r].held

\* (Mutant.)  The booking is read without its lock.
NeverWaits(b) == b \in Bookings

BookingFree(b) == \A r \in Requests : ~(request[r].locked /\ request[r].booking = b)

RecordHolders(c) ==
  {r \in Requests : request[r].record = "held" /\ booking[request[r].booking].citizen = c}

----------------------------------------------------------------------------
(* Requests: appointment_create, appointment_modify and appointment_delete *)
(* (a modification to "cancelled"), staff's calls of the same functions,   *)
(* mark_no_show, and the tasks of tasks.py.                                *)

Begin(r, q) ==
  /\ request[r] = Idle
  /\ request' = [request EXCEPT ![r] = q]
  /\ UNCHANGED <<slot, booking>>

CreateStarts(r, c, slots, exclusive) ==
  Begin(r, [Idle EXCEPT !.kind = "create", !.citizen = c, !.exclusive = exclusive,
                        !.todo = slots])

\* Only these give the space back; a completed booking keeps it.
Frees(status) == status \in {"cancelled", "rejected"}

\* The slot rows a modification of b will lock; an exclusive flag set on a
\* booking that is over locks none.
Affected(b, target, status, exclusive, ended) ==
  (IF target # None THEN {booking[b].slot, target} ELSE {}) \cup
  (IF Frees(status) \/ exclusive = FALSE \/ (exclusive = TRUE /\ ~ended)
     THEN {booking[b].slot} ELSE {})

\* The booking is read without a lock.
ModifyStarts(r, b, target, status, exclusive) ==
  /\ booking[b].status # "none"
  /\ target # booking[b].slot
  /\ LET ended == /\ target = None /\ status = None /\ exclusive # None
                  /\ booking[b].status \in Terminal
     IN  Begin(r, [Idle EXCEPT !.kind = "modify", !.booking = b, !.target = target,
                     !.status = status, !.exclusive = exclusive, !.sawEnded = ended,
                     !.sawExclusive = target # None /\ booking[b].exclusive,
                     !.todo = Affected(b, target, status, exclusive,
                                       ended \/ status = "completed")])

\* The task skips a booking that is no longer pending when it reads it.
CleanupStarts(r, b) ==
  /\ booking[b].status = "pending"
  /\ ModifyStarts(r, b, None, "cancelled", None)

NoShowStarts(r, b) ==
  /\ booking[b].status # "none"
  /\ Begin(r, [Idle EXCEPT !.kind = "noShow", !.booking = b])

\* mark_past_slots_completed, one UPDATE of the slots that have ended; target is
\* the row it meets next.
PastStarts(r, slots) ==
  /\ \A s \in slots : slot[s].status # "closed"
  /\ \E first \in slots :
       Begin(r, [Idle EXCEPT !.kind = "past", !.target = first, !.todo = slots])

Abort(r) ==
  /\ request[r] # Idle
  /\ request' = [request EXCEPT ![r] = Idle]
  /\ UNCHANGED <<slot, booking>>

----------------------------------------------------------------------------
(* Row locks: the booking first, then the slots in ascending order, then   *)
(* the record.  But completing a booking locks the record before the       *)
(* exclusive flag locks the slot, and an UPDATE meets its rows in any order.*)

WantsBooking(r) == request[r].booking # None /\ ~request[r].locked

RecordFirst(q) == q.status = "completed" /\ q.target = None

WantsRecord(r) ==
  request[r].record = "due" /\ (request[r].todo = {} \/ RecordFirst(request[r]))

\* (Mutant.)  A reschedule locks the slot it leaves first.
OldSlotFirst(r) ==
  LET old == {s \in request[r].todo : \E b \in Bookings : booking[b].slot = s
                                        /\ request[r].booking = b}
  IN  IF request[r].kind = "past" THEN request[r].target
      ELSE IF old # {} THEN Min(old) ELSE Min(request[r].todo)

NextLock(r) == IF request[r].kind = "past" THEN request[r].target ELSE Min(request[r].todo)

\* confirm_booking, reject_booking, cancel_booking, complete_booking.
TransitionAllowed(from, to) ==
  \/ to = "confirmed" /\ from = "pending"
  \/ to = "rejected"  /\ from = "pending"
  \/ to = "cancelled" /\ from \in Live
  \/ to = "completed" /\ from = "confirmed"

\* (Mutant.)  A booking that has moved may move again.
ReschedulableAgain(row) == ~row.noShow /\ row.count < MaxReschedules

Reschedulable(row) ==
  row.status = "confirmed" /\ ~row.noShow /\ row.count < MaxReschedules

Markable(row) == row.status = "confirmed" /\ ~row.noShow

\* The checks made of the booking under its lock, which is then kept; a
\* rescheduled booking goes on as a confirmed one.
Permitted(q, row) ==
  /\ q.kind = "noShow" => Markable(row)
  /\ q.target # None => Reschedulable(row)
  /\ q.status # None =>
       TransitionAllowed(IF q.target # None THEN "confirmed" ELSE row.status, q.status)

\* late: a confirmed booking is cancelled within its notice window.
UpdatesRecord(q, row, late) ==
  \/ q.kind = "noShow" \/ q.status = "completed"
  \/ q.status = "cancelled" /\ row.status = "confirmed" /\ late

LockBooking(r) ==
  LET q == request[r]
      b == q.booking
  IN  /\ WantsBooking(r)
      /\ BookingFree(b)
      /\ Permitted(q, booking[b])
      /\ \E late \in BOOLEAN :
           request' = [request EXCEPT ![r].locked = TRUE, ![r].record =
                         IF UpdatesRecord(q, booking[b], late) THEN "due" ELSE "none"]
      /\ UNCHANGED <<slot, booking>>

LockRecord(r) ==
  /\ ~WantsBooking(r) /\ WantsRecord(r)
  /\ RecordHolders(booking[request[r].booking].citizen) = {}
  /\ request' = [request EXCEPT ![r].record = "held"]
  /\ UNCHANGED <<slot, booking>>

Active(c) == {b \in Bookings : booking[b].citizen = c /\ booking[b].status \in Live}

\* create_booking checks each slot and the active bookings, its own uncommitted
\* ones included, when it has locked the slot; the uncommitted bookings of the
\* other requests are not visible to it.
Admitted(r, s) ==
  /\ Bookable(slot[s])
  /\ Cardinality(Active(request[r].citizen)) + Cardinality(request[r].held) < MaxActive

\* The row an UPDATE meets next is any of the rest.
Onward(q, rest) == IF q.kind = "past" /\ rest # {} THEN rest ELSE {q.target}

LockSlot(r) ==
  LET s    == NextLock(r)
      rest == request[r].todo \ {s}
  IN  /\ ~WantsBooking(r) /\ ~WantsRecord(r) /\ request[r].todo # {}
      /\ SlotFree(s)
      /\ request[r].kind = "create" => Admitted(r, s)
      /\ \E next \in Onward(request[r], rest) :
           request' = [request EXCEPT ![r].todo = rest, ![r].held = @ \cup {s},
                                      ![r].target = next]
      /\ UNCHANGED <<slot, booking>>

Ready(r) ==
  /\ request[r] # Idle /\ ~WantsBooking(r)
  /\ request[r].todo = {} /\ request[r].record # "due"

----------------------------------------------------------------------------
(* Commits.                                                                *)

Unused == {b \in Bookings : booking[b].status = "none"}

Done(r) == request' = [request EXCEPT ![r] = Idle]

\* One booking per slot; then the exclusive flag and its slot locks.
CommitCreate(r) ==
  LET q == request[r]
      New(s) == [NoBooking EXCEPT
                   !.status = IF s \in NeedsConfirmation THEN "pending" ELSE "confirmed",
                   !.slot = s, !.citizen = q.citizen, !.exclusive = q.exclusive]
  IN  /\ q.kind = "create" /\ Ready(r)
      /\ \E f \in [q.held -> Unused] :
           /\ \A s, t \in q.held : f[s] = f[t] => s = t
           /\ booking' = [b \in Bookings |->
                            IF \E s \in q.held : f[s] = b
                            THEN New(CHOOSE s \in q.held : f[s] = b) ELSE booking[b]]
      /\ slot' = [s \in Slots |->
                    IF s \notin q.held THEN slot[s]
                    ELSE IF q.exclusive THEN Locked(Taken(slot[s])) ELSE Taken(slot[s])]
      /\ Done(r)

\* The exclusive toggle skips the lock of a booking it takes for terminal.
Toggled(v, exclusive, ended) ==
  IF exclusive = None THEN v
  ELSE IF ~exclusive THEN Recomputed(v)
  ELSE IF ended THEN v ELSE Locked(v)

\* appointment_modify without a new slot.  The toggle looks at the status read
\* by the transition under the lock, or else at the one read without it.
CommitModify(r) ==
  LET q   == request[r]
      b   == q.booking
      row == booking[b]
  IN  /\ q.kind = "modify" /\ Ready(r) /\ q.target = None
      /\ booking' = [booking EXCEPT
                       ![b].status = IF q.status = None THEN @ ELSE q.status,
                       ![b].exclusive = IF q.exclusive = None THEN @ ELSE q.exclusive]
      /\ slot' = [slot EXCEPT ![row.slot] =
                    Toggled(IF Frees(q.status) THEN Freed(@) ELSE @, q.exclusive,
                            q.sawEnded \/ q.status \in Terminal)]
      /\ Done(r)

\* appointment_modify with a new slot: reschedule_booking cancels b, frees its
\* slot and confirms a successor n; the exclusive flag read without a lock is
\* carried over, its slot lock renewed; then the rest of the call applies to n.
CommitReschedule(r, n) ==
  LET q     == request[r]
      b     == q.booking
      row   == booking[b]
      moved == IF q.sawExclusive THEN Locked(Taken(slot[q.target]))
               ELSE Taken(slot[q.target])
      now   == IF q.status = None THEN "confirmed" ELSE q.status
  IN  /\ q.kind = "modify" /\ Ready(r) /\ q.target # None
      /\ Bookable(slot[q.target])
      /\ booking' = [booking EXCEPT
           ![b].status = "cancelled", ![b].exclusive = @ /\ ~q.sawExclusive,
           ![n] = [NoBooking EXCEPT
                     !.status = now, !.slot = q.target, !.citizen = row.citizen,
                     !.exclusive = IF q.exclusive = None THEN q.sawExclusive
                                   ELSE q.exclusive,
                     !.from = b, !.count = row.count + 1]]
      /\ slot' = [slot EXCEPT
           ![row.slot] = Freed(@),
           ![q.target] = Toggled(IF Frees(q.status) THEN Freed(moved) ELSE moved,
                                 q.exclusive, now \in Terminal)]
      /\ Done(r)

\* mark_no_show leaves the booking confirmed and its space taken.
CommitNoShow(r) ==
  /\ request[r].kind = "noShow" /\ Ready(r)
  /\ booking' = [booking EXCEPT ![request[r].booking].noShow = TRUE]
  /\ Done(r)
  /\ UNCHANGED slot

CommitPast(r) ==
  /\ request[r].kind = "past" /\ Ready(r)
  /\ slot' = [s \in Slots |-> IF s \in request[r].held
                             THEN [slot[s] EXCEPT !.status = "closed"] ELSE slot[s]]
  /\ Done(r)
  /\ UNCHANGED booking

----------------------------------------------------------------------------
(* Operations on one row.                                                  *)

\* confirm_booking, which touches no slot.
Confirm(b) ==
  /\ BookingFree(b)
  /\ TransitionAllowed(booking[b].status, "confirmed")
  /\ booking' = [booking EXCEPT ![b].status = "confirmed"]
  /\ UNCHANGED <<slot, request>>

SetSlot(s, v) ==
  /\ SlotFree(s)
  /\ slot' = [slot EXCEPT ![s] = v]
  /\ UNCHANGED <<booking, request>>

InUse(s) == \E b \in Bookings : booking[b].slot = s /\ booking[b].status \in Live

\* block_slot and cancel_slot; they refuse a slot in use.
CloseSlot(s) ==
  /\ slot[s].status # "closed" /\ ~InUse(s)
  /\ SetSlot(s, [slot[s] EXCEPT !.status = "closed"])

\* event_modify assigns any status, and any capacity the check constraint
\* (spaces_used <= capacity) lets through; event_delete closes the slot.
\* Neither looks at the bookings.
EventStatus(s, status) == SetSlot(s, [slot[s] EXCEPT !.status = status])

EventCapacity(s, n) ==
  /\ Fits(slot[s], n)
  /\ SetSlot(s, [slot[s] EXCEPT !.capacity = n])

----------------------------------------------------------------------------
Starts(r) ==
  \/ \E c \in Citizens, slots \in SUBSET Slots \ {{}}, x \in ExclusiveCreates :
       CreateStarts(r, c, slots, x)
  \/ \E b \in Bookings :
       \/ \E m \in Modifications : ModifyStarts(r, b, m[1], m[2], m[3])
       \/ CleanupStarts(r, b) \/ NoShowStarts(r, b)
  \/ \E slots \in SUBSET Slots : PastStarts(r, slots)

Locks(r) == LockBooking(r) \/ LockSlot(r) \/ LockRecord(r)

Commits(r) ==
  \/ CommitCreate(r) \/ CommitModify(r) \/ CommitNoShow(r) \/ CommitPast(r)
  \/ \E n \in Unused : CommitReschedule(r, n)

Next ==
  \/ \E r \in Requests : Starts(r) \/ Locks(r) \/ Commits(r) \/ Abort(r)
  \/ \E b \in Bookings : Confirm(b)
  \/ \E s \in Slots :
       \/ CloseSlot(s)
       \/ \E status \in EventStatuses : EventStatus(s, status)
       \/ \E n \in Capacities[s] : EventCapacity(s, n)

Spec == Init /\ [][Next]_vars

----------------------------------------------------------------------------
(* Properties.                                                             *)

Holders(s) == {b \in Bookings : booking[b].slot = s /\ booking[b].status \in Holding}

\* spaces_used counts the bookings that keep a space in the slot, pending,
\* confirmed and completed ones, whatever was created, moved, cancelled or
\* rejected at the same time and whatever status the slot was given meanwhile
\* (create_booking, reschedule_booking, cancel_booking, reject_booking).
SpacesAreExact == \A s \in Slots : slot[s].used = Cardinality(Holders(s))

\* A slot is never overbooked, although its status may say anything
\* (event_modify) and its capacity may be lowered.
NeverOverbooked == \A s \in Slots : Cardinality(Holders(s)) <= slot[s].capacity

\* Rescheduling moves an appointment, it never doubles it: a booking has at
\* most one successor, a booking with a successor is cancelled, and the chain
\* is as long as the count says (reschedule_booking).
RescheduleMoves ==
  \A b \in Bookings : booking[b].from # None =>
    LET old == booking[booking[b].from]
    IN  /\ old.status = "cancelled"
        /\ booking[b].count = old.count + 1
        /\ booking[b].citizen = old.citizen
        /\ \A o \in Bookings : booking[o].from = booking[b].from => o = b

\* The requests r waits for.
WaitsFor(r) ==
  IF WantsBooking(r)
    THEN {q \in Requests : request[q].locked /\ request[q].booking = request[r].booking}
  ELSE IF WantsRecord(r) THEN RecordHolders(booking[request[r].booking].citizen)
  ELSE IF request[r].todo # {} THEN {q \in Requests : NextLock(r) \in request[q].held}
  ELSE {}

CircleIn(S) == S # {} /\ \A r \in S : WaitsFor(r) \cap S # {}

\* What the comments promise ("consistent order ... prevents deadlock",
\* booking.py:686; "a globally consistent acquisition order",
\* govstack_appointment.py:403): no requests wait for each other in a circle.
\* Refuted: the UPDATE of mark_past_slots_completed follows no order, and
\* appointment_modify may lock the record before the slot.
NoCircularWait == \A S \in SUBSET Requests : ~CircleIn(S)

\* Those two are in every circle: requests that lock the booking, slots in
\* ascending order and the record, in this order, never make one among
\* themselves (appointment_create, reschedule_booking, cancel_booking,
\* mark_no_show).
OutOfOrder(r) ==
  request[r].kind = "past" \/ (request[r].record = "held" /\ request[r].todo # {})

OrderedNeverCircle ==
  \A S \in SUBSET {r \in Requests : ~OutOfOrder(r)} : ~CircleIn(S)

\* A cancelled, rejected or completed booking stays so, and no booking goes
\* back to pending.
OutcomeIsFinal ==
  [][\A b \in Bookings :
        LET from == booking[b].status
            to   == booking'[b].status
        IN  /\ from \in Terminal => to = from
            /\ from = "confirmed" => to # "pending"
            /\ from # "none" => to # "none"]_vars

=============================================================================
