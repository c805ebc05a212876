---------------------------- MODULE BookingProofs ----------------------------
(***************************************************************************)
(* Proofs about Booking for any number of slots, citizens, bookings and    *)
(* concurrent requests: the spaces of a slot are counted exactly and never *)
(* oversold, rescheduling moves an appointment, an outcome is final, and   *)
(* requests that lock rows in order never wait in a circle.                *)
(***************************************************************************)
EXTENDS Booking, FiniteSetTheorems, TLAPS

Statuses == {"none", "pending", "confirmed", "completed", "cancelled", "rejected"}

SlotRow == [status: {"open", "full", "closed"}, used: Nat, capacity: Nat \ {0}]

Row == [status: Statuses, slot: Slots \cup {None}, citizen: Citizens \cup {None},
        noShow: BOOLEAN, exclusive: BOOLEAN, from: Bookings \cup {None}, count: Nat]

Call == [kind: {"idle", "create", "modify", "noShow", "past"}, citizen: Citizens \cup {None},
         booking: Bookings \cup {None}, target: Slots \cup {None},
         status: {"confirmed", "completed", "cancelled", "rejected", None},
         exclusive: {TRUE, FALSE, None}, sawEnded: BOOLEAN, sawExclusive: BOOLEAN,
         locked: BOOLEAN, record: {"none", "due", "held"},
         todo: SUBSET Slots, held: SUBSET Slots]

TypeOK ==
  /\ slot \in [Slots -> SlotRow]
  /\ booking \in [Bookings -> Row]
  /\ request \in [Requests -> Call]

----------------------------------------------------------------------------
(* The inductive invariant.                                                *)

\* A booking that exists has a slot and a citizen.
Filled(row) ==
  IF row.status = "none" THEN row = NoBooking
  ELSE row.slot \in Slots /\ row.citizen \in Citizens

\* What a request is about, and the order of its locks: the booking first, the
\* slots in ascending order.  Only who has the booking updates the record.
Shaped(q) ==
  /\ q.kind = "idle" => q = Idle
  /\ q.kind = "create" => q.citizen \in Citizens /\ q.exclusive \in BOOLEAN
  /\ q.kind \in {"create", "past"} => q.booking = None
  /\ q.kind \in {"modify", "noShow"} => q.booking \in Bookings
  /\ q.kind = "past" => q.target \in Slots /\ (q.todo # {} => q.target \in q.todo)
  /\ q.kind # "past" => \A s \in q.held, t \in q.todo : s < t
  /\ q.booking # None /\ ~q.locked => q.held = {}
  /\ q.record # "none" => q.locked

\* The slots a modification locks, given what its request has read.
Wanted(q) ==
  Affected(q.booking, q.target, q.status, q.exclusive, q.sawEnded \/ q.status = "completed")

\* What a request knows of its booking: its slot, for good, and once the booking is
\* locked the status the checks were made of.
Informed(q) ==
  /\ q.kind \in {"modify", "noShow"} =>
       /\ booking[q.booking].status # "none"
       /\ q.locked => Permitted(q, booking[q.booking])
  /\ q.kind = "modify" =>
       /\ q.target # booking[q.booking].slot
       /\ q.held \cup q.todo = Wanted(q)

\* The slots a creation has locked stay bookable.
Reserved(q) == q.kind = "create" => \A s \in q.held : Bookable(slot[s])

\* No two requests lock the same row.
Apart(p, q) ==
  /\ p.held \cap q.held = {}
  /\ ~(p.locked /\ q.locked /\ p.booking = q.booking)

WithinCapacity == \A s \in Slots : slot[s].used <= slot[s].capacity

IInv ==
  /\ TypeOK
  /\ \A b \in Bookings : Filled(booking[b])
  /\ \A r \in Requests : Shaped(request[r]) /\ Informed(request[r]) /\ Reserved(request[r])
  /\ \A r, q \in Requests : r # q => Apart(request[r], request[q])
  /\ WithinCapacity
  /\ SpacesAreExact
  /\ RescheduleMoves

----------------------------------------------------------------------------
(* Facts about the operators.                                              *)

\* The ascending lock order is well defined: a set of slots has a first and a last.
LEMMA Extremes ==
  ASSUME NEW S \in SUBSET Slots, S # {}
  PROVE  /\ \E x \in S : \A y \in S : x <= y
         /\ \E x \in S : \A y \in S : y <= x
<1> DEFINE below(x) == {y \in S : y < x}
           above(x) == {y \in S : x < y}
<1>1. S \subseteq Nat /\ IsFiniteSet(S)
  BY SlotsAssumption, FS_Subset
<1>2. IsWellFoundedOn(StrictSubsetOrdering(S), SUBSET S)
  BY <1>1, FS_StrictSubsetOrderingWellFounded, FS_FiniteSubsetsOfFinite
<1>3. PICK x \in S : \A y \in S : <<below(y), below(x)>> \notin StrictSubsetOrdering(S)
  <2> DEFINE F == {below(x) : x \in S}
  <2>1. F \subseteq SUBSET S /\ F # {} OBVIOUS
  <2>2. PICK m \in F : \A n \in F : <<n, m>> \notin StrictSubsetOrdering(S)
    <3> HIDE DEF F
    <3> QED BY <1>2, <2>1, WFMin
  <2> QED BY <2>2
<1>4. PICK z \in S : \A y \in S : <<above(y), above(z)>> \notin StrictSubsetOrdering(S)
  <2> DEFINE F == {above(x_1) : x_1 \in S}
  <2>1. F \subseteq SUBSET S /\ F # {} OBVIOUS
  <2>2. PICK m \in F : \A n \in F : <<n, m>> \notin StrictSubsetOrdering(S)
    <3> HIDE DEF F
    <3> QED BY <1>2, <2>1, WFMin
  <2> QED BY <2>2
<1>5. ASSUME NEW y \in S PROVE x <= y
  <2>1. SUFFICES ASSUME y < x PROVE FALSE BY <1>1
  <2>2. \A t \in S : t \in Nat BY <1>1
  <2>3. below(y) \subseteq below(x) /\ y \in below(x) /\ y \notin below(y)
    BY <2>1, <2>2
  <2> QED BY <1>3, <2>3 DEF StrictSubsetOrdering
<1>6. ASSUME NEW y \in S PROVE y <= z
  <2>1. SUFFICES ASSUME z < y PROVE FALSE BY <1>1
  <2>2. \A t \in S : t \in Nat BY <1>1
  <2>3. above(y) \subseteq above(z) /\ y \in above(z) /\ y \notin above(y)
    BY <2>1, <2>2
  <2> QED BY <1>4, <2>3 DEF StrictSubsetOrdering
<1> QED BY <1>5, <1>6

\* The next lock is the first of those to take.
LEMMA NextIsFirst ==
  ASSUME NEW S \in SUBSET Slots, S # {}
  PROVE  Min(S) \in S /\ \A y \in S : Min(S) <= y
BY Extremes DEF Min

\* _update_slot_status and the updates of spaces_used keep a slot row a slot row and
\* leave its capacity alone.
LEMMA SlotRows ==
  ASSUME NEW v \in SlotRow
  PROVE  /\ Recomputed(v) \in SlotRow /\ Recomputed(v).used = v.used
         /\ Recomputed(v).capacity = v.capacity
         /\ Locked(v) \in SlotRow /\ Locked(v).used = v.used /\ Locked(v).capacity = v.capacity
         /\ Taken(v) \in SlotRow /\ Taken(v).used = v.used + 1 /\ Taken(v).capacity = v.capacity
         /\ Freed(v) \in SlotRow /\ Freed(v).capacity = v.capacity
         /\ v.used > 0 => Freed(v).used = v.used - 1
<1>1. \A w \in SlotRow : /\ Recomputed(w) \in SlotRow /\ Recomputed(w).used = w.used
                         /\ Recomputed(w).capacity = w.capacity
  BY DEF SlotRow, Recomputed
<1>2. Locked(v) \in SlotRow /\ Locked(v).used = v.used /\ Locked(v).capacity = v.capacity
  BY DEF SlotRow, Locked
<1> DEFINE more == [v EXCEPT !.used = @ + 1]
           less == [v EXCEPT !.used = IF @ > 0 THEN @ - 1 ELSE 0]
<1>3. more \in SlotRow /\ more.used = v.used + 1 /\ more.capacity = v.capacity
  BY DEF SlotRow
<1>4. /\ less \in SlotRow /\ less.capacity = v.capacity
      /\ v.used > 0 => less.used = v.used - 1
  BY DEF SlotRow
<1> HIDE DEF more, less
<1>5. Taken(v) = Recomputed(more) /\ Freed(v) = Recomputed(less)
  BY DEF Taken, Freed, more, less
<1> QED BY <1>1, <1>2, <1>3, <1>4, <1>5

\* The exclusive toggle changes the status of a slot only.
LEMMA ToggledRow ==
  ASSUME NEW v \in SlotRow, NEW exclusive, NEW ended
  PROVE  /\ Toggled(v, exclusive, ended) \in SlotRow
         /\ Toggled(v, exclusive, ended).used = v.used
         /\ Toggled(v, exclusive, ended).capacity = v.capacity
BY SlotRows DEF Toggled

\* The bookings that hold a space in a slot can be counted.
LEMMA HoldersFinite ==
  \A s \in Slots : IsFiniteSet(Holders(s)) /\ Cardinality(Holders(s)) \in Nat
BY BookingsAssumption, FS_Subset, FS_CardinalityType DEF Holders

LEMMA InvInit == Init => IInv
<1> SUFFICES ASSUME Init PROVE IInv OBVIOUS
<1>1. slot \in [Slots -> SlotRow] /\ \A s \in Slots : slot[s].used = 0
  <2>1. PICK capacity \in [Slots -> UNION {Capacities[s] : s \in Slots}] :
          /\ \A s \in Slots : capacity[s] \in Capacities[s]
          /\ slot = [s \in Slots |-> [status |-> "open", used |-> 0, capacity |-> capacity[s]]]
    BY DEF Init
  <2>2. \A s \in Slots : capacity[s] \in Nat \ {0} BY <2>1, CapacitiesAssumption
  <2> QED BY <2>1, <2>2 DEF SlotRow
<1>2. booking = [b \in Bookings |-> NoBooking] /\ NoBooking \in Row
      /\ NoBooking.status = "none" /\ NoBooking.from = None
  BY DEF Init, NoBooking, Row, Statuses
<1>3. request = [r \in Requests |-> Idle] /\ Idle \in Call /\ Idle.kind = "idle"
      /\ Idle.held = {} /\ ~Idle.locked
  BY DEF Init, Idle, Call
<1>4. TypeOK BY <1>1, <1>2, <1>3 DEF TypeOK
<1>5. \A b \in Bookings : Filled(booking[b]) BY <1>2 DEF Filled
<1>6. \A r \in Requests : Shaped(request[r]) /\ Informed(request[r]) /\ Reserved(request[r])
  BY <1>3 DEF Shaped, Informed, Reserved, Idle
<1>7. \A r, q \in Requests : r # q => Apart(request[r], request[q])
  BY <1>3 DEF Apart
<1>8. WithinCapacity BY <1>1 DEF WithinCapacity, SlotRow
<1>9. SpacesAreExact
  <2>1. \A s \in Slots : Holders(s) = {} BY <1>2 DEF Holders, Holding, Live
  <2> QED BY <1>1, <2>1, FS_EmptySet DEF SpacesAreExact
<1>10. RescheduleMoves BY <1>2 DEF RescheduleMoves
<1> QED BY <1>4, <1>5, <1>6, <1>7, <1>8, <1>9, <1>10 DEF IInv

----------------------------------------------------------------------------
(* Steps that change one request only.                                     *)

\* They keep the invariant if the request is sound and apart from the others.
LEMMA LocalStep ==
  ASSUME IInv, NEW r \in Requests, NEW x \in Call, UNCHANGED <<slot, booking>>,
         request' = [request EXCEPT ![r] = x],
         Shaped(x), Informed(x), Reserved(x),
         \A q \in Requests \ {r} : Apart(x, request[q])
  PROVE  IInv'
<1>1. \A q \in Requests : request'[q] = IF q = r THEN x ELSE request[q]
  BY DEF IInv, TypeOK
<1>2. TypeOK' BY DEF IInv, TypeOK
<1>3. ASSUME NEW q \in Requests PROVE Shaped(request[q])' /\ Informed(request[q])' /\ Reserved(request[q])'
  <2>1. Shaped(request'[q]) /\ Informed(request'[q]) /\ Reserved(request'[q])
    BY <1>1 DEF IInv
  <2>2. Shaped(request[q])' BY <2>1 DEF Shaped
  <2>3. Informed(request[q])' BY <2>1 DEF Informed, Wanted, Affected, Permitted
  <2>4. Reserved(request[q])' BY <2>1 DEF Reserved, Bookable
  <2> QED BY <2>2, <2>3, <2>4
<1>4. ASSUME NEW p \in Requests, NEW q \in Requests, p # q PROVE Apart(request[p], request[q])'
  BY <1>1, <1>4 DEF IInv, Apart
<1>5. /\ (\A b \in Bookings : Filled(booking[b]))' /\ WithinCapacity' /\ SpacesAreExact'
      /\ RescheduleMoves'
  BY DEF IInv, Filled, WithinCapacity, SpacesAreExact, Holders, RescheduleMoves
<1> QED BY <1>2, <1>3, <1>4, <1>5 DEF IInv

LEMMA IdleIsSound ==
  /\ Idle \in Call /\ Shaped(Idle) /\ Informed(Idle) /\ Reserved(Idle)
  /\ \A q \in Call : Apart(Idle, q)
BY NoneAssumption DEF Idle, Call, Shaped, Informed, Reserved, Apart

LEMMA AbortStep ==
  ASSUME IInv, NEW r \in Requests, Abort(r) PROVE IInv'
<1>1. \A q \in Requests : Apart(Idle, request[q]) BY IdleIsSound DEF IInv, TypeOK
<1> QED BY <1>1, IdleIsSound, LocalStep DEF Abort

LEMMA CreateStartsStep ==
  ASSUME IInv, NEW r \in Requests, NEW c \in Citizens, NEW slots \in SUBSET Slots,
         NEW exclusive \in ExclusiveCreates, CreateStarts(r, c, slots, exclusive)
  PROVE  IInv'
<1> DEFINE x == [Idle EXCEPT !.kind = "create", !.citizen = c, !.exclusive = exclusive,
                             !.todo = slots]
<1>1. /\ x \in Call /\ x.kind = "create" /\ x.citizen = c /\ x.exclusive = exclusive
      /\ x.held = {} /\ ~x.locked /\ x.booking = None /\ x.record = "none"
  BY CallsAssumption DEF Idle, Call
<1>2. request' = [request EXCEPT ![r] = x] /\ UNCHANGED <<slot, booking>>
  BY DEF CreateStarts, Begin
<1> HIDE DEF x
<1>3. Shaped(x) /\ Informed(x) /\ Reserved(x) /\ \A q \in Requests : Apart(x, request[q])
  BY <1>1, CallsAssumption DEF Shaped, Informed, Reserved, Apart
<1> QED BY <1>1, <1>2, <1>3, LocalStep

LEMMA ModifyStartsStep ==
  ASSUME IInv, NEW r \in Requests, NEW b \in Bookings, NEW target \in Slots \cup {None},
         NEW status \in {"confirmed", "completed", "cancelled", "rejected", None},
         NEW exclusive \in {TRUE, FALSE, None},
         ModifyStarts(r, b, target, status, exclusive)
  PROVE  IInv'
<1> DEFINE ended == /\ target = None /\ status = None /\ exclusive # None
                    /\ booking[b].status \in Terminal
           flag == target # None /\ booking[b].exclusive
           rows == Affected(b, target, status, exclusive, ended \/ status = "completed")
           x == [Idle EXCEPT !.kind = "modify", !.booking = b, !.target = target,
                             !.status = status, !.exclusive = exclusive, !.sawEnded = ended,
                             !.sawExclusive = flag,
                             !.todo = rows]
<1>1. booking[b] \in Row /\ booking[b].status # "none" /\ booking[b].slot \in Slots
  BY DEF IInv, TypeOK, Filled, ModifyStarts
<1>2. rows \in SUBSET Slots
  BY <1>1 DEF Affected
<1>3. ended \in BOOLEAN /\ flag \in BOOLEAN BY <1>1 DEF Row
<1>4. request' = [request EXCEPT ![r] = x] /\ UNCHANGED <<slot, booking>>
  BY DEF ModifyStarts, Begin
<1> HIDE DEF ended, flag, rows
<1>5. /\ x \in Call /\ x.kind = "modify" /\ x.booking = b /\ x.target = target
      /\ x.status = status /\ x.exclusive = exclusive /\ x.sawEnded = ended
      /\ x.todo = rows
      /\ x.held = {} /\ ~x.locked /\ x.record = "none"
  <2> DEFINE y == [Idle EXCEPT !.kind = "modify", !.booking = b, !.target = target,
                               !.status = status]
  <2>1. /\ y \in Call /\ y.kind = "modify" /\ y.booking = b /\ y.target = target
        /\ y.status = status /\ y.held = {} /\ ~y.locked /\ y.record = "none"
    BY DEF Idle, Call
  <2>2. x = [y EXCEPT !.exclusive = exclusive, !.sawEnded = ended, !.sawExclusive = flag,
                      !.todo = rows]
    OBVIOUS
  <2> HIDE DEF x, y
  <2> QED BY <1>2, <1>3, <2>1, <2>2 DEF Call
<1> HIDE DEF x
<1>6. Shaped(x) /\ Reserved(x) /\ \A q \in Requests : Apart(x, request[q])
  BY <1>5 DEF Shaped, Reserved, Apart
<1>7. Informed(x) BY <1>1, <1>5 DEF Informed, Wanted, ModifyStarts, rows
<1> QED BY <1>4, <1>5, <1>6, <1>7, LocalStep

LEMMA NoShowStartsStep ==
  ASSUME IInv, NEW r \in Requests, NEW b \in Bookings, NoShowStarts(r, b)
  PROVE  IInv'
<1> DEFINE x == [Idle EXCEPT !.kind = "noShow", !.booking = b]
<1>1. /\ x \in Call /\ x.kind = "noShow" /\ x.booking = b /\ x.held = {} /\ x.todo = {}
      /\ ~x.locked /\ x.record = "none"
  BY DEF Idle, Call
<1>2. request' = [request EXCEPT ![r] = x] /\ UNCHANGED <<slot, booking>>
  BY DEF NoShowStarts, Begin
<1> HIDE DEF x
<1>3. Shaped(x) /\ Reserved(x) /\ \A q \in Requests : Apart(x, request[q])
  BY <1>1 DEF Shaped, Reserved, Apart
<1>4. Informed(x) BY <1>1 DEF Informed, NoShowStarts
<1> QED BY <1>1, <1>2, <1>3, <1>4, LocalStep

LEMMA PastStartsStep ==
  ASSUME IInv, NEW r \in Requests, NEW slots \in SUBSET Slots, PastStarts(r, slots)
  PROVE  IInv'
<1>0. PICK first \in slots :
        Begin(r, [Idle EXCEPT !.kind = "past", !.target = first, !.todo = slots])
  BY DEF PastStarts
<1> DEFINE x == [Idle EXCEPT !.kind = "past", !.target = first, !.todo = slots]
<1>1. /\ x \in Call /\ x.kind = "past" /\ x.booking = None /\ x.target = first /\ x.todo = slots
      /\ x.held = {} /\ ~x.locked /\ x.record = "none"
  BY DEF Idle, Call
<1>2. request' = [request EXCEPT ![r] = x] /\ UNCHANGED <<slot, booking>>
  BY <1>0 DEF Begin
<1> HIDE DEF x
<1>3. Shaped(x) /\ Informed(x) /\ Reserved(x) /\ \A q \in Requests : Apart(x, request[q])
  BY <1>1 DEF Shaped, Informed, Reserved, Apart
<1> QED BY <1>1, <1>2, <1>3, LocalStep

\* Every request that starts, the clean-up of a pending booking included.
LEMMA StartsStep ==
  ASSUME IInv, NEW r \in Requests, Starts(r) PROVE IInv'
<1>1. CASE \E c \in Citizens, slots \in SUBSET Slots \ {{}}, x \in ExclusiveCreates :
             CreateStarts(r, c, slots, x)
  BY <1>1, CreateStartsStep
<1>2. CASE \E b \in Bookings, m \in Modifications : ModifyStarts(r, b, m[1], m[2], m[3])
  BY <1>2, CallsAssumption, ModifyStartsStep
<1>3. CASE \E b \in Bookings : CleanupStarts(r, b)
  BY <1>3, ModifyStartsStep DEF CleanupStarts
<1>4. CASE \E b \in Bookings : NoShowStarts(r, b) BY <1>4, NoShowStartsStep
<1>5. CASE \E slots \in SUBSET Slots : PastStarts(r, slots) BY <1>5, PastStartsStep
<1> QED BY <1>1, <1>2, <1>3, <1>4, <1>5 DEF Starts

LEMMA LockBookingStep ==
  ASSUME IInv, NEW r \in Requests, LockBooking(r) PROVE IInv'
<1>0. PICK late \in BOOLEAN :
        request' = [request EXCEPT ![r].locked = TRUE, ![r].record =
                      IF UpdatesRecord(request[r], booking[request[r].booking], late)
                      THEN "due" ELSE "none"]
  BY DEF LockBooking
<1> DEFINE b == request[r].booking
           due == IF UpdatesRecord(request[r], booking[b], late) THEN "due" ELSE "none"
           x == [request[r] EXCEPT !.locked = TRUE, !.record = due]
<1>1. /\ request[r] \in Call /\ Shaped(request[r]) /\ Informed(request[r]) /\ Reserved(request[r])
      /\ b # None /\ ~request[r].locked /\ BookingFree(b) /\ Permitted(request[r], booking[b])
  BY DEF IInv, TypeOK, LockBooking, WantsBooking
<1>2. request' = [request EXCEPT ![r] = x] /\ UNCHANGED <<slot, booking>>
  BY <1>0 DEF LockBooking, IInv, TypeOK
<1>a. due \in {"none", "due"} OBVIOUS
<1> HIDE DEF due
<1>3. /\ x \in Call /\ x.kind = request[r].kind /\ x.citizen = request[r].citizen /\ x.booking = b
      /\ x.target = request[r].target /\ x.status = request[r].status
      /\ x.exclusive = request[r].exclusive /\ x.sawEnded = request[r].sawEnded
      /\ x.locked /\ x.todo = request[r].todo /\ x.held = request[r].held
  BY <1>1, <1>a DEF Call
<1> HIDE DEF x, b
<1>4. request[r].kind \in {"modify", "noShow"} /\ request[r].held = {} /\ b \in Bookings
  <2>1. request[r].kind # "idle" BY <1>1 DEF Shaped, Idle, b
  <2>2. request[r].kind \notin {"create", "past"} BY <1>1 DEF Shaped, b
  <2> QED BY <1>1, <2>1, <2>2 DEF Shaped, Call, b
<1>5. Shaped(x) /\ Reserved(x) BY <1>1, <1>3, <1>4 DEF Shaped, Reserved
<1>6. Informed(x) BY <1>1, <1>3, <1>4 DEF Informed, Wanted, Permitted, b
<1>7. \A q \in Requests \ {r} : Apart(x, request[q])
  BY <1>1, <1>3, <1>4 DEF BookingFree, Apart
<1> QED BY <1>2, <1>3, <1>5, <1>6, <1>7, LocalStep

LEMMA LockRecordStep ==
  ASSUME IInv, NEW r \in Requests, LockRecord(r) PROVE IInv'
<1> DEFINE x == [request[r] EXCEPT !.record = "held"]
<1>1. /\ request[r] \in Call /\ Shaped(request[r]) /\ Informed(request[r]) /\ Reserved(request[r])
      /\ request[r].record = "due" /\ \A q \in Requests \ {r} : Apart(request[r], request[q])
  BY DEF IInv, TypeOK, LockRecord, WantsRecord
<1>2. request' = [request EXCEPT ![r] = x] /\ UNCHANGED <<slot, booking>>
  BY DEF LockRecord, IInv, TypeOK
<1>3. /\ x \in Call /\ x.kind = request[r].kind /\ x.citizen = request[r].citizen
      /\ x.booking = request[r].booking /\ x.target = request[r].target
      /\ x.status = request[r].status /\ x.exclusive = request[r].exclusive
      /\ x.sawEnded = request[r].sawEnded /\ x.locked = request[r].locked
      /\ x.todo = request[r].todo /\ x.held = request[r].held
  BY <1>1 DEF Call
<1> HIDE DEF x
<1>4. Shaped(x) /\ Reserved(x) BY <1>1, <1>3 DEF Shaped, Reserved, Idle
<1>5. Informed(x) BY <1>1, <1>3 DEF Informed, Wanted, Permitted
<1>6. \A q \in Requests \ {r} : Apart(x, request[q]) BY <1>1, <1>3 DEF Apart
<1> QED BY <1>2, <1>3, <1>4, <1>5, <1>6, LocalStep

LEMMA LockSlotStep ==
  ASSUME IInv, NEW r \in Requests, LockSlot(r) PROVE IInv'
<1> DEFINE s == NextLock(r)
           rest == request[r].todo \ {s}
<1>0. PICK next \in Onward(request[r], rest) :
        request' = [request EXCEPT ![r].todo = rest, ![r].held = @ \cup {s}, ![r].target = next]
  BY DEF LockSlot
<1> DEFINE x == [request[r] EXCEPT !.todo = rest, !.held = @ \cup {s}, !.target = next]
<1>1. /\ request[r] \in Call /\ Shaped(request[r]) /\ Informed(request[r]) /\ Reserved(request[r])
      /\ ~WantsBooking(r) /\ request[r].todo # {} /\ SlotFree(s)
      /\ request[r].kind = "create" => Bookable(slot[s])
  BY DEF IInv, TypeOK, LockSlot, Admitted
<1>2. request' = [request EXCEPT ![r] = x] /\ UNCHANGED <<slot, booking>>
  BY <1>0 DEF LockSlot, IInv, TypeOK
<1>3. /\ s \in request[r].todo /\ s \in Slots
      /\ request[r].kind # "past" => \A t \in request[r].todo : s <= t
  BY <1>1, NextIsFirst DEF NextLock, Call, Shaped
<1>b. /\ next \in Slots \cup {None}
      /\ request[r].kind # "past" => next = request[r].target
      /\ request[r].kind = "past" => next \in Slots /\ (rest # {} => next \in rest)
  BY <1>1 DEF Onward, Shaped, Call
<1>4. /\ x \in Call /\ x.kind = request[r].kind /\ x.citizen = request[r].citizen
      /\ x.booking = request[r].booking
      /\ x.target = next /\ x.status = request[r].status
      /\ x.exclusive = request[r].exclusive /\ x.sawEnded = request[r].sawEnded
      /\ x.locked = request[r].locked /\ x.record = request[r].record
      /\ x.todo = rest /\ x.held = request[r].held \cup {s}
  BY <1>1, <1>3, <1>b DEF Call
<1> HIDE DEF x, s
<1>5. Shaped(x)
  <2>1. x.kind # "idle" BY <1>1, <1>4 DEF Shaped, Idle
  <2>2. x.kind # "past" => \A h \in x.held, t \in x.todo : h < t
    BY <1>1, <1>3, <1>4, SlotsAssumption DEF Shaped, Call
  <2> QED BY <1>1, <1>4, <1>b, <2>1, <2>2 DEF Shaped, WantsBooking
<1>6. Reserved(x) BY <1>1, <1>4 DEF Reserved
<1>7. Informed(x)
  <2>1. x.held \cup x.todo = request[r].held \cup request[r].todo BY <1>3, <1>4
  <2>2. x.kind # "past" => x.target = request[r].target BY <1>4, <1>b
  <2> QED BY <1>1, <1>4, <2>1, <2>2 DEF Informed, Wanted, Permitted
<1>8. \A q \in Requests \ {r} : Apart(x, request[q])
  BY <1>1, <1>4 DEF SlotFree, Apart, IInv
<1> QED BY <1>2, <1>4, <1>5, <1>6, <1>7, <1>8, LocalStep

----------------------------------------------------------------------------
(* Operations on one row.                                                  *)

\* The chain of a rescheduled appointment stays right if no predecessor changes.
LEMMA ChainKept ==
  ASSUME IInv,
         \A c \in Bookings : booking'[c].from # None =>
           /\ booking'[c].from = booking[c].from /\ booking'[c].count = booking[c].count
           /\ booking'[c].citizen = booking[c].citizen,
         \A c \in Bookings : booking[c].status = "cancelled" =>
           /\ booking'[c].status = "cancelled" /\ booking'[c].count = booking[c].count
           /\ booking'[c].citizen = booking[c].citizen
  PROVE  RescheduleMoves'
<1>1. SUFFICES ASSUME NEW c \in Bookings, booking'[c].from # None
               PROVE  /\ booking'[booking'[c].from].status = "cancelled"
                      /\ booking'[c].count = booking'[booking'[c].from].count + 1
                      /\ booking'[c].citizen = booking'[booking'[c].from].citizen
                      /\ \A o \in Bookings : booking'[o].from = booking'[c].from => o = c
  BY DEF RescheduleMoves
<1> DEFINE a == booking[c].from
<1>2. a \in Bookings /\ a # None BY <1>1 DEF IInv, TypeOK, Row
<1>3. /\ booking[a].status = "cancelled" /\ booking[c].count = booking[a].count + 1
      /\ booking[c].citizen = booking[a].citizen
      /\ \A o \in Bookings : booking[o].from = a => o = c
  BY <1>2 DEF IInv, RescheduleMoves
<1> QED BY <1>1, <1>2, <1>3

\* A pending booking that nobody has locked is confirmed, and keeps its space.
LEMMA ConfirmStep ==
  ASSUME IInv, NEW b \in Bookings, Confirm(b) PROVE IInv'
<1> DEFINE row == [booking[b] EXCEPT !.status = "confirmed"]
<1>0. booking[b] \in Row /\ booking[b].status = "pending" /\ BookingFree(b)
  BY DEF IInv, TypeOK, Confirm, TransitionAllowed
<1>a. /\ row \in Row /\ row.status = "confirmed" /\ row.slot = booking[b].slot
      /\ row.citizen = booking[b].citizen /\ row.from = booking[b].from
      /\ row.count = booking[b].count
  BY <1>0 DEF Row, Statuses
<1>b. booking' = [booking EXCEPT ![b] = row] BY <1>0 DEF Confirm, IInv, TypeOK
<1> HIDE DEF row
<1>1. \A c \in Bookings : booking'[c] = IF c = b THEN row ELSE booking[c]
  BY <1>b DEF IInv, TypeOK
<1>2. UNCHANGED <<slot, request>> BY DEF Confirm
<1>3. TypeOK' BY <1>2, <1>a, <1>b DEF IInv, TypeOK
<1>4. (\A c \in Bookings : Filled(booking[c]))' BY <1>0, <1>1, <1>a DEF IInv, Filled
<1>5. ASSUME NEW q \in Requests PROVE Shaped(request[q])' /\ Informed(request[q])' /\ Reserved(request[q])'
  <2>1. Shaped(request[q]) /\ Informed(request[q]) /\ Reserved(request[q]) BY DEF IInv
  <2>2. Shaped(request[q])' /\ Reserved(request[q])'
    BY <1>2, <2>1 DEF Shaped, Reserved, Bookable
  <2>3. request[q].kind \in {"modify", "noShow"} => request[q].booking \in Bookings
    BY <2>1 DEF Shaped
  <2>4. request[q].locked => request[q].booking # b BY <1>0 DEF BookingFree
  <2>5. \A c \in Bookings : /\ booking'[c].slot = booking[c].slot
                            /\ booking[c].status # "none" => booking'[c].status # "none"
                            /\ c # b => booking'[c] = booking[c]
    BY <1>1, <1>a
  <2>6. Informed(request[q])'
    BY <1>2, <2>1, <2>3, <2>4, <2>5 DEF Informed, Wanted, Affected
  <2> QED BY <2>2, <2>6
<1>6. (\A p, q \in Requests : p # q => Apart(request[p], request[q]))'
  BY <1>2 DEF IInv, Apart
<1>7. \A s \in Slots : Holders(s)' = Holders(s) BY <1>0, <1>1, <1>a DEF Holders, Holding, Live
<1>8. SpacesAreExact' /\ WithinCapacity'
  BY <1>2, <1>7 DEF IInv, SpacesAreExact, WithinCapacity
<1>9. RescheduleMoves' BY <1>0, <1>1, <1>a, ChainKept
<1> QED BY <1>3, <1>4, <1>5, <1>6, <1>8, <1>9 DEF IInv

\* A slot that nobody has locked gets another status, or a capacity its spaces fit in.
LEMMA OneSlotStep ==
  ASSUME IInv, NEW s \in Slots, NEW v \in SlotRow, SetSlot(s, v),
         v.used = slot[s].used, v.used <= v.capacity
  PROVE  IInv'
<1>1. \A t \in Slots : slot'[t] = IF t = s THEN v ELSE slot[t]
  BY DEF IInv, TypeOK, SetSlot
<1>2. UNCHANGED <<booking, request>> /\ SlotFree(s) BY DEF SetSlot
<1>3. TypeOK' BY <1>2 DEF IInv, TypeOK, SetSlot
<1>4. (\A c \in Bookings : Filled(booking[c]))' BY <1>2 DEF IInv, Filled
<1>5. ASSUME NEW q \in Requests PROVE Shaped(request[q])' /\ Informed(request[q])' /\ Reserved(request[q])'
  <2>1. /\ Shaped(request[q]) /\ Informed(request[q]) /\ Reserved(request[q])
        /\ request[q].held \subseteq Slots
    BY DEF IInv, TypeOK, Call
  <2>2. Shaped(request[q])' BY <1>2, <2>1 DEF Shaped
  <2>3. Informed(request[q])' BY <1>2, <2>1 DEF Informed, Wanted, Affected
  <2>4. Reserved(request[q])' BY <1>1, <1>2, <2>1 DEF Reserved, SlotFree, Bookable
  <2> QED BY <2>2, <2>3, <2>4
<1>6. (\A p, q \in Requests : p # q => Apart(request[p], request[q]))'
  BY <1>2 DEF IInv, Apart
<1>7. \A t \in Slots : Holders(t)' = Holders(t) BY <1>2 DEF Holders
<1>8. SpacesAreExact' /\ WithinCapacity'
  BY <1>1, <1>7 DEF IInv, SpacesAreExact, WithinCapacity
<1>9. RescheduleMoves' BY <1>2 DEF IInv, RescheduleMoves
<1> QED BY <1>3, <1>4, <1>5, <1>6, <1>8, <1>9 DEF IInv

LEMMA SlotStatusStep ==
  ASSUME IInv, NEW s \in Slots, NEW status \in {"open", "full", "closed"},
         SetSlot(s, [slot[s] EXCEPT !.status = status])
  PROVE  IInv'
<1> DEFINE v == [slot[s] EXCEPT !.status = status]
<1>1. slot[s] \in SlotRow /\ slot[s].used <= slot[s].capacity BY DEF IInv, TypeOK, WithinCapacity
<1>2. v \in SlotRow /\ v.used = slot[s].used /\ v.capacity = slot[s].capacity BY <1>1 DEF SlotRow
<1>3. SetSlot(s, v) OBVIOUS
<1> HIDE DEF v
<1> QED BY <1>1, <1>2, <1>3, OneSlotStep

LEMMA EventCapacityStep ==
  ASSUME IInv, NEW s \in Slots, NEW n \in Capacities[s], EventCapacity(s, n)
  PROVE  IInv'
<1> DEFINE v == [slot[s] EXCEPT !.capacity = n]
<1>1. slot[s] \in SlotRow /\ slot[s].used <= n BY DEF IInv, TypeOK, EventCapacity, Fits
<1>2. v \in SlotRow /\ v.used = slot[s].used /\ v.capacity = n
  BY <1>1, CapacitiesAssumption DEF SlotRow
<1>3. SetSlot(s, v) BY DEF EventCapacity
<1> HIDE DEF v
<1> QED BY <1>1, <1>2, <1>3, OneSlotStep

----------------------------------------------------------------------------
(* Commits.                                                                *)

\* A commit leaves the other requests as sound as they were: it writes the slots
\* and the booking it has locked, and new bookings.
LEMMA CommitStep ==
  ASSUME IInv, NEW r \in Requests, Done(r),
         slot' \in [Slots -> SlotRow], booking' \in [Bookings -> Row],
         \A s \in Slots \ request[r].held : slot'[s] = slot[s],
         \A b \in Bookings : \/ booking'[b] = booking[b]
                             \/ booking[b].status = "none"
                             \/ request[r].locked /\ request[r].booking = b,
         \A b \in Bookings : Filled(booking'[b]),
         \A b \in Bookings : booking[b].status # "none" =>
           booking'[b].status # "none" /\ booking'[b].slot = booking[b].slot,
         WithinCapacity', SpacesAreExact', RescheduleMoves'
  PROVE  IInv'
<1>1. \A q \in Requests : request'[q] = IF q = r THEN Idle ELSE request[q]
  BY DEF IInv, TypeOK, Done
<1>2. TypeOK' BY IdleIsSound DEF IInv, TypeOK, Done
<1>3. ASSUME NEW q \in Requests PROVE Shaped(request[q])' /\ Informed(request[q])' /\ Reserved(request[q])'
  <2>1. CASE q = r
    <3>1. request'[q] = Idle /\ Idle.kind = "idle" /\ Shaped(Idle) BY <1>1, <2>1, IdleIsSound DEF Idle
    <3>2. Shaped(request[q])' BY <3>1 DEF Shaped
    <3> QED BY <3>1, <3>2 DEF Informed, Reserved
  <2>2. CASE q # r
    <3>1. /\ request'[q] = request[q] /\ request[q] \in Call
          /\ Shaped(request[q]) /\ Informed(request[q]) /\ Reserved(request[q])
          /\ Apart(request[q], request[r])
      BY <1>1, <2>2 DEF IInv, TypeOK
    <3>2. Shaped(request[q])' BY <3>1 DEF Shaped
    <3>3. Reserved(request[q])'
      <4>1. \A s \in request[q].held : slot'[s] = slot[s] BY <3>1 DEF Apart, Call
      <4> QED BY <3>1, <4>1 DEF Reserved, Bookable
    <3>4. Informed(request[q])'
      <4>1. SUFFICES ASSUME request[q].kind \in {"modify", "noShow"} PROVE Informed(request[q])'
        BY <3>1 DEF Informed
      <4> DEFINE b == request[q].booking
      <4>2. /\ b \in Bookings /\ booking[b].status # "none"
            /\ request[q].locked => Permitted(request[q], booking[b])
            /\ request[q].kind = "modify" =>
                 /\ request[q].target # booking[b].slot
                 /\ request[q].held \cup request[q].todo = Wanted(request[q])
        BY <3>1, <4>1 DEF Shaped, Informed
      <4>3. booking'[b].status # "none" /\ booking'[b].slot = booking[b].slot BY <4>2
      <4>4. request[q].locked => booking'[b] = booking[b] BY <3>1, <4>2 DEF Apart
      <4> QED BY <3>1, <4>2, <4>3, <4>4 DEF Informed, Wanted, Affected
    <3> QED BY <3>2, <3>3, <3>4
  <2> QED BY <2>1, <2>2
<1>4. ASSUME NEW p \in Requests, NEW q \in Requests, p # q PROVE Apart(request[p], request[q])'
  BY <1>1, <1>4, IdleIsSound DEF IInv, TypeOK, Apart
<1>5. (\A b \in Bookings : Filled(booking[b]))' BY DEF Filled
<1> QED BY <1>2, <1>3, <1>4, <1>5 DEF IInv

\* create_booking: each locked slot gets one more booking, and one more space used.
LEMMA CommitCreateStep ==
  ASSUME IInv, NEW r \in Requests, CommitCreate(r) PROVE IInv'
<1> DEFINE q == request[r]
           New(s) == [NoBooking EXCEPT
                        !.status = IF s \in NeedsConfirmation THEN "pending" ELSE "confirmed",
                        !.slot = s, !.citizen = q.citizen, !.exclusive = q.exclusive]
           After(v) == IF q.exclusive THEN Locked(Taken(v)) ELSE Taken(v)
<1>1. /\ q \in Call /\ q.kind = "create" /\ q.citizen \in Citizens /\ q.exclusive \in BOOLEAN
      /\ q.held \subseteq Slots /\ \A s \in q.held : Bookable(slot[s])
  BY DEF IInv, TypeOK, CommitCreate, Shaped, Reserved, Call
<1>2. PICK f \in [q.held -> Unused] :
        /\ \A s, t \in q.held : f[s] = f[t] => s = t
        /\ booking' = [b \in Bookings |->
                         IF \E s \in q.held : f[s] = b
                         THEN New(CHOOSE s \in q.held : f[s] = b) ELSE booking[b]]
  BY DEF CommitCreate
<1>3. slot' = [s \in Slots |-> IF s \notin q.held THEN slot[s] ELSE After(slot[s])] /\ Done(r)
  BY DEF CommitCreate
<1>4. \A s \in Slots : /\ New(s) \in Row /\ New(s).status \in Live /\ New(s).slot = s
                       /\ New(s).citizen = q.citizen /\ New(s).from = None
  BY <1>1 DEF NoBooking, Row, Statuses, Live
<1>5. \A v \in SlotRow : After(v) \in SlotRow /\ After(v).used = v.used + 1
                         /\ After(v).capacity = v.capacity
  BY SlotRows
<1> HIDE DEF New, After
<1>6. \A s \in q.held : booking'[f[s]] = New(s) /\ f[s] \in Bookings /\ booking[f[s]].status = "none"
  BY <1>2 DEF Unused
<1>7. \A b \in Bookings : \/ \E s \in q.held : b = f[s]
                          \/ booking'[b] = booking[b] /\ \A s \in q.held : b # f[s]
  BY <1>2
<1>8. slot \in [Slots -> SlotRow] /\ booking \in [Bookings -> Row] BY DEF IInv, TypeOK
<1>9. slot' \in [Slots -> SlotRow] BY <1>3, <1>5, <1>8
<1>10. booking' \in [Bookings -> Row]
  <2>1. \A b \in Bookings : booking'[b] \in Row BY <1>1, <1>4, <1>6, <1>7, <1>8
  <2> QED BY <1>2, <2>1
<1>11. \A b \in Bookings : Filled(booking'[b])
  BY <1>1, <1>4, <1>6, <1>7 DEF IInv, Filled, Live
<1>12. \A s \in Slots : slot'[s] = IF s \in q.held THEN After(slot[s]) ELSE slot[s]
  BY <1>3
<1>13. WithinCapacity'
  BY <1>1, <1>5, <1>8, <1>12 DEF IInv, WithinCapacity, Bookable, SlotRow
<1>14. SpacesAreExact'
  <2>1. ASSUME NEW s \in q.held PROVE slot'[s].used = Cardinality(Holders(s)')
    <3>1. Holders(s)' = Holders(s) \cup {f[s]} /\ f[s] \notin Holders(s)
      <4>1. booking'[f[s]].slot = s /\ booking'[f[s]].status \in Holding
        BY <1>1, <1>4, <1>6 DEF Holding
      <4>2. f[s] \notin Holders(s) BY <1>6 DEF Holders, Holding, Live
      <4>3. \A t \in q.held : t # s => booking'[f[t]].slot # s /\ f[t] \notin Holders(s)
        BY <1>1, <1>4, <1>6 DEF Holders, Holding, Live
      <4>4. ASSUME NEW b \in Bookings, b # f[s]
            PROVE b \in Holders(s)' <=> b \in Holders(s)
        BY <1>7, <4>3, <4>4 DEF Holders
      <4> QED BY <1>6, <4>1, <4>2, <4>4 DEF Holders
    <3>2. Cardinality(Holders(s)') = Cardinality(Holders(s)) + 1
      BY <1>1, <3>1, HoldersFinite, FS_AddElement
    <3> QED BY <1>1, <1>5, <1>8, <1>12, <3>2 DEF IInv, SpacesAreExact
  <2>2. ASSUME NEW s \in Slots \ q.held PROVE slot'[s].used = Cardinality(Holders(s)')
    <3>1. \A t \in q.held : booking'[f[t]].slot # s /\ booking[f[t]].status \notin Holding
      BY <1>1, <1>4, <1>6 DEF Holding, Live
    <3>2. Holders(s)' = Holders(s) BY <1>7, <3>1 DEF Holders
    <3> QED BY <1>12, <3>2 DEF IInv, SpacesAreExact
  <2> QED BY <2>1, <2>2 DEF SpacesAreExact
<1>15. RescheduleMoves'
  <2>1. ASSUME NEW c \in Bookings, booking'[c].from # None
        PROVE  booking'[c] = booking[c] /\ booking[c].from # None
    BY <1>1, <1>4, <1>6, <1>7, <2>1
  <2>2. ASSUME NEW c \in Bookings, booking[c].status = "cancelled" PROVE booking'[c] = booking[c]
    BY <1>6, <1>7, <2>2
  <2> QED BY <2>1, <2>2, ChainKept
<1> QED
  <2>1. \A b \in Bookings : booking'[b] = booking[b] \/ booking[b].status = "none" BY <1>6, <1>7
  <2>2. \A s \in Slots \ q.held : slot'[s] = slot[s] BY <1>12
  <2> QED BY <1>3, <1>9, <1>10, <1>11, <1>13, <1>14, <1>15, <2>1, <2>2, CommitStep

\* A modification about to commit has locked its booking, knows its slot, and was
\* permitted on the row as it is.
LEMMA ModifyLocked ==
  ASSUME IInv, NEW r \in Requests, request[r].kind = "modify", Ready(r)
  PROVE  \E q \in Call, b \in Bookings, s \in Slots :
           /\ q = request[r] /\ q.kind = "modify" /\ q.locked /\ b = q.booking
           /\ s = booking[b].slot /\ booking[b].citizen \in Citizens
           /\ booking[b].status # "none" /\ q.target # s
           /\ q.held = Wanted(q)
           /\ Permitted(q, booking[b])
<1> DEFINE q == request[r]
<1>1. q \in Call /\ Shaped(q) /\ Informed(q) /\ ~WantsBooking(r) /\ q.todo = {}
  BY DEF IInv, TypeOK, Ready
<1>2. q.booking \in Bookings /\ q.locked BY <1>1, NoneAssumption DEF Shaped, WantsBooking
<1>3. booking[q.booking].status # "none" BY <1>1 DEF Informed
<1>4. booking[q.booking].slot \in Slots /\ booking[q.booking].citizen \in Citizens
  BY <1>2, <1>3 DEF IInv, Filled
<1> QED BY <1>1, <1>2, <1>3, <1>4 DEF Informed

\* confirm, reject, cancel, complete or flag a booking, under its lock and that of
\* its slot.
LEMMA CommitModifyStep ==
  ASSUME IInv, NEW r \in Requests, CommitModify(r) PROVE IInv'
<1>1. slot \in [Slots -> SlotRow] /\ booking \in [Bookings -> Row] BY DEF IInv, TypeOK
<1>2. PICK q \in Call, b \in Bookings, s \in Slots :
        /\ q = request[r] /\ q.kind = "modify" /\ q.locked /\ b = q.booking
        /\ s = booking[b].slot /\ booking[b].citizen \in Citizens
        /\ booking[b].status # "none" /\ q.target # s
        /\ q.held = Wanted(q)
        /\ Permitted(q, booking[b])
  BY ModifyLocked DEF CommitModify
<1> DEFINE row == booking[b]
           base == IF Frees(q.status) THEN Freed(slot[s]) ELSE slot[s]
           v == Toggled(base, q.exclusive, q.sawEnded \/ q.status \in Terminal)
           now == IF q.status = None THEN row.status ELSE q.status
           flag == IF q.exclusive = None THEN row.exclusive ELSE q.exclusive
           new == [row EXCEPT !.status = now, !.exclusive = flag]
<1>a. q.target = None /\ (q.status # None => TransitionAllowed(row.status, q.status))
  BY <1>2 DEF CommitModify, Permitted
<1>3. Done(r) /\ slot' = [slot EXCEPT ![s] = v] BY <1>2 DEF CommitModify
<1>4. booking' = [booking EXCEPT ![b] = new] BY <1>1, <1>2 DEF CommitModify
<1>5. now \in Statuses /\ now # "none" /\ flag \in BOOLEAN
  BY <1>1, <1>2 DEF Row, Call, Statuses
<1>6. Frees(q.status) => row.status \in Holding /\ now \notin Holding
  BY <1>a, NoneAssumption DEF Frees, TransitionAllowed, Holding, Live
<1>7. ~Frees(q.status) => (row.status \in Holding <=> now \in Holding)
  BY <1>a DEF Frees, TransitionAllowed, Holding, Live
<1>8. row.status = "cancelled" => now = "cancelled"
  BY <1>a DEF TransitionAllowed, Live
<1>9. /\ new \in Row /\ new.status = now /\ new.slot = s /\ new.citizen = row.citizen
      /\ new.from = row.from /\ new.count = row.count
  BY <1>1, <1>2, <1>5 DEF Row
<1> HIDE DEF now, flag, new
<1>10. /\ \A c \in Bookings : c # b => booking'[c] = booking[c]
       /\ booking'[b] \in Row /\ booking'[b].status = now
       /\ booking'[b].slot = s /\ booking'[b].citizen = row.citizen
       /\ booking'[b].from = row.from /\ booking'[b].count = row.count
  BY <1>1, <1>4, <1>9
<1>11. booking' \in [Bookings -> Row] BY <1>1, <1>4, <1>9
<1>12. Frees(q.status) => slot[s].used > 0
  <2>1. Frees(q.status) => Holders(s) # {} BY <1>2, <1>6 DEF Holders
  <2> QED BY <1>2, <2>1, HoldersFinite, FS_EmptySet DEF IInv, SpacesAreExact
<1>13. /\ base \in SlotRow /\ base.capacity = slot[s].capacity
       /\ base.used = IF Frees(q.status) THEN slot[s].used - 1 ELSE slot[s].used
  BY <1>1, <1>2, <1>12, SlotRows
<1> HIDE DEF base
<1>14. /\ v \in SlotRow /\ v.capacity = slot[s].capacity
       /\ v.used = IF Frees(q.status) THEN slot[s].used - 1 ELSE slot[s].used
  BY <1>13, ToggledRow
<1>15. s \notin q.held => v = slot[s]
  BY <1>2 DEF Wanted, Affected, Frees, Toggled, base, Terminal
<1> HIDE DEF v
<1>16. \A t \in Slots : slot'[t] = IF t = s THEN v ELSE slot[t] BY <1>1, <1>2, <1>3
<1>17. slot' \in [Slots -> SlotRow] BY <1>1, <1>2, <1>3, <1>14
<1>18. \A t \in Slots \ q.held : slot'[t] = slot[t] BY <1>15, <1>16
<1>19. WithinCapacity'
  BY <1>1, <1>14, <1>16 DEF IInv, WithinCapacity, SlotRow
<1>20. SpacesAreExact'
  <2>1. ASSUME NEW t \in Slots, t # s PROVE slot'[t].used = Cardinality(Holders(t)')
    <3>1. Holders(t)' = Holders(t) BY <1>2, <1>10, <2>1 DEF Holders
    <3> QED BY <1>16, <2>1, <3>1 DEF IInv, SpacesAreExact
  <2>2. slot'[s].used = Cardinality(Holders(s)')
    <3>1. CASE Frees(q.status)
      <4>0. s \in Slots BY <1>2
      <4>1. Holders(s)' = Holders(s) \ {b} /\ b \in Holders(s)
        BY <1>2, <1>6, <1>10, <3>1 DEF Holders
      <4>2. Cardinality(Holders(s)') = Cardinality(Holders(s)) - 1
        BY <4>0, <4>1, HoldersFinite, FS_RemoveElement
      <4> QED BY <1>2, <1>14, <1>16, <3>1, <4>2 DEF IInv, SpacesAreExact
    <3>2. CASE ~Frees(q.status)
      <4>1. Holders(s)' = Holders(s) BY <1>2, <1>7, <1>10, <3>2 DEF Holders
      <4> QED BY <1>2, <1>14, <1>16, <3>2, <4>1 DEF IInv, SpacesAreExact
    <3> QED BY <3>1, <3>2
  <2> QED BY <2>1, <2>2 DEF SpacesAreExact
<1>21. RescheduleMoves' BY <1>8, <1>10, ChainKept
<1>22. \A c \in Bookings : Filled(booking'[c])
  BY <1>2, <1>5, <1>10 DEF IInv, Filled
<1> QED
  <2>1. \A c \in Bookings : booking'[c] = booking[c] \/ (q.locked /\ q.booking = c) BY <1>2, <1>10
  <2>2. \A c \in Bookings : booking[c].status # "none" =>
          booking'[c].status # "none" /\ booking'[c].slot = booking[c].slot
    BY <1>2, <1>5, <1>10
  <2> QED BY <1>2, <1>3, <1>11, <1>17, <1>18, <1>19, <1>20, <1>21, <1>22, <2>1, <2>2, CommitStep

\* reschedule_booking: the space moves with the appointment.
LEMMA CommitRescheduleStep ==
  ASSUME IInv, NEW r \in Requests, NEW n \in Unused, CommitReschedule(r, n) PROVE IInv'
<1>1. slot \in [Slots -> SlotRow] /\ booking \in [Bookings -> Row] BY DEF IInv, TypeOK
<1>2. PICK q \in Call, b \in Bookings, s \in Slots :
        /\ q = request[r] /\ q.kind = "modify" /\ q.locked /\ b = q.booking
        /\ s = booking[b].slot /\ booking[b].citizen \in Citizens
        /\ booking[b].status # "none" /\ q.target # s
        /\ q.held = Wanted(q)
        /\ Permitted(q, booking[b])
  BY ModifyLocked DEF CommitReschedule
<1> DEFINE row == booking[b]
<1>a. PICK d \in Slots : d = q.target BY <1>2 DEF CommitReschedule, Call
<1>b. /\ d # None /\ d # s /\ row.status = "confirmed"
      /\ q.status # None => TransitionAllowed("confirmed", q.status)
  BY <1>2, <1>a, NoneAssumption DEF Permitted, Reschedulable
<1> DEFINE moved == IF q.sawExclusive THEN Locked(Taken(slot[d])) ELSE Taken(slot[d])
           now == IF q.status = None THEN "confirmed" ELSE q.status
           base == IF Frees(q.status) THEN Freed(moved) ELSE moved
           v == Toggled(base, q.exclusive, now \in Terminal)
           flag == IF q.exclusive = None THEN q.sawExclusive ELSE q.exclusive
           old == [row EXCEPT !.status = "cancelled", !.exclusive = @ /\ ~q.sawExclusive]
           new == [NoBooking EXCEPT !.status = now, !.slot = d, !.citizen = row.citizen,
                                    !.exclusive = flag, !.from = b, !.count = row.count + 1]
<1>3. n \in Bookings /\ booking[n].status = "none" /\ n # b BY <1>2 DEF Unused
<1>4. Done(r) /\ Bookable(slot[d]) BY <1>2, <1>a DEF CommitReschedule
<1>5. slot' = [slot EXCEPT ![s] = Freed(@), ![d] = v] BY <1>2, <1>a DEF CommitReschedule
<1>6. booking' = [booking EXCEPT ![b] = old, ![n] = new]
  BY <1>1, <1>2, <1>3, <1>a DEF CommitReschedule
<1>7. /\ now \in {"confirmed", "completed", "cancelled"}
      /\ Frees(q.status) <=> now \notin Holding
  BY <1>b, NoneAssumption DEF Frees, TransitionAllowed, Holding, Live
<1>c. flag \in BOOLEAN /\ row.count + 1 \in Nat /\ row \in Row
  <2>1. q.sawExclusive \in BOOLEAN /\ q.exclusive \in {TRUE, FALSE, None} BY DEF Call
  <2>2. row \in Row /\ row.count \in Nat BY <1>1 DEF Row
  <2>3. flag \in BOOLEAN BY <2>1
  <2> QED BY <2>2, <2>3
<1> HIDE DEF now, flag
<1>8. /\ new \in Row /\ new.status = now /\ new.slot = d /\ new.citizen = row.citizen
      /\ new.from = b /\ new.count = row.count + 1
  BY <1>2, <1>7, <1>c DEF NoBooking, Row, Statuses
<1>9. /\ old \in Row /\ old.status = "cancelled" /\ old.slot = s /\ old.citizen = row.citizen
      /\ old.from = row.from /\ old.count = row.count
  BY <1>2, <1>c DEF Row, Statuses
<1>10. s \in q.held /\ d \in q.held BY <1>2, <1>a, <1>b DEF Wanted, Affected
<1>11. moved \in SlotRow /\ moved.used = slot[d].used + 1 /\ moved.capacity = slot[d].capacity
  <2>1. Taken(slot[d]) \in SlotRow BY <1>1, SlotRows
  <2> QED BY <1>1, <2>1, SlotRows
<1> HIDE DEF new, old, moved
<1>12. /\ base \in SlotRow /\ base.capacity = slot[d].capacity
       /\ base.used = IF Frees(q.status) THEN slot[d].used ELSE slot[d].used + 1
  <2>1. slot[d].used \in Nat /\ moved.used > 0 BY <1>1, <1>11 DEF SlotRow
  <2>2. Freed(moved) \in SlotRow /\ Freed(moved).capacity = moved.capacity
        /\ Freed(moved).used = moved.used - 1
    BY <1>11, <2>1, SlotRows
  <2>3. moved.used - 1 = slot[d].used BY <1>11, <2>1
  <2> QED BY <1>11, <2>2, <2>3
<1> HIDE DEF base
<1>13. /\ v \in SlotRow /\ v.capacity = slot[d].capacity
       /\ v.used = IF Frees(q.status) THEN slot[d].used ELSE slot[d].used + 1
  BY <1>12, ToggledRow
<1>14. slot[s].used > 0
  <2>1. Holders(s) # {} BY <1>2, <1>b DEF Holders, Holding, Live
  <2> QED BY <1>2, <2>1, HoldersFinite, FS_EmptySet DEF IInv, SpacesAreExact
<1>15. /\ Freed(slot[s]) \in SlotRow /\ Freed(slot[s]).capacity = slot[s].capacity
       /\ Freed(slot[s]).used = slot[s].used - 1
  BY <1>1, <1>2, <1>14, SlotRows
<1> HIDE DEF v
<1>16. /\ \A t \in Slots : slot'[t] = IF t = d THEN v ELSE IF t = s THEN Freed(slot[s]) ELSE slot[t]
       /\ slot' \in [Slots -> SlotRow]
  BY <1>1, <1>b, <1>5, <1>13, <1>15
<1>17. /\ \A c \in Bookings : c # b /\ c # n => booking'[c] = booking[c]
       /\ booking'[n] = new
       /\ booking'[b] \in Row /\ booking'[b].status = "cancelled" /\ booking'[b].slot = s
       /\ booking'[b].citizen = row.citizen /\ booking'[b].from = row.from
       /\ booking'[b].count = row.count
  BY <1>1, <1>3, <1>6, <1>9
<1>18. booking' \in [Bookings -> Row] BY <1>1, <1>6, <1>8, <1>9
<1>19. WithinCapacity'
  <2>1. slot[d].used + 1 <= slot[d].capacity BY <1>1, <1>4 DEF Bookable, SlotRow
  <2> QED BY <1>1, <1>13, <1>15, <1>16, <2>1 DEF IInv, WithinCapacity, SlotRow
<1>20. SpacesAreExact'
  <2>1. ASSUME NEW t \in Slots, t # s, t # d PROVE slot'[t].used = Cardinality(Holders(t)')
    <3>1. booking[n] = NoBooking BY <1>3 DEF IInv, Filled
    <3>2. Holders(t)' = Holders(t)
      BY <1>2, <1>3, <1>8, <1>17, <2>1 DEF Holders, Holding, Live
    <3> QED BY <1>16, <2>1, <3>2 DEF IInv, SpacesAreExact
  <2>2. slot'[s].used = Cardinality(Holders(s)')
    <3>0. s \in Slots BY <1>2
    <3>1. Holders(s)' = Holders(s) \ {b} /\ b \in Holders(s)
      BY <1>2, <1>3, <1>b, <1>8, <1>17 DEF Holders, Holding, Live
    <3>2. Cardinality(Holders(s)') = Cardinality(Holders(s)) - 1
      BY <3>0, <3>1, HoldersFinite, FS_RemoveElement
    <3> QED BY <1>2, <1>b, <1>15, <1>16, <3>2 DEF IInv, SpacesAreExact
  <2>3. slot'[d].used = Cardinality(Holders(d)')
    <3>1. b \notin Holders(d) /\ b \notin Holders(d)' BY <1>2, <1>b, <1>17 DEF Holders
    <3>2. n \notin Holders(d) BY <1>3 DEF Holders, Holding, Live
    <3>3. CASE Frees(q.status)
      <4>1. n \notin Holders(d)' BY <1>7, <1>8, <1>17, <3>3 DEF Holders
      <4>2. Holders(d)' = Holders(d) BY <1>17, <3>1, <3>2, <4>1 DEF Holders
      <4> QED BY <1>2, <1>13, <1>16, <3>3, <4>2 DEF IInv, SpacesAreExact
    <3>4. CASE ~Frees(q.status)
      <4>0. d \in Slots BY <1>2
      <4>1. n \in Holders(d)' BY <1>3, <1>7, <1>8, <1>17, <3>4 DEF Holders
      <4>2. Holders(d)' = Holders(d) \cup {n} BY <1>17, <3>1, <4>1 DEF Holders
      <4>3. Cardinality(Holders(d)') = Cardinality(Holders(d)) + 1
        BY <4>0, <3>2, <4>2, HoldersFinite, FS_AddElement
      <4> QED BY <1>2, <1>13, <1>16, <3>4, <4>3 DEF IInv, SpacesAreExact
    <3> QED BY <3>3, <3>4
  <2> QED BY <2>1, <2>2, <2>3 DEF SpacesAreExact
<1>21. RescheduleMoves'
  <2>1. \A c \in Bookings : booking[c].from # None => booking[c].from \in Bookings \ {b, n}
    <3>1. ASSUME NEW c \in Bookings, booking[c].from # None
          PROVE  booking[c].from \in Bookings /\ booking[booking[c].from].status = "cancelled"
      BY <1>1, <3>1 DEF IInv, RescheduleMoves, Row
    <3> QED BY <1>b, <1>3, <3>1
  <2>2. SUFFICES ASSUME NEW c \in Bookings, booking'[c].from # None
                 PROVE  /\ booking'[booking'[c].from].status = "cancelled"
                        /\ booking'[c].count = booking'[booking'[c].from].count + 1
                        /\ booking'[c].citizen = booking'[booking'[c].from].citizen
                        /\ \A o \in Bookings : booking'[o].from = booking'[c].from => o = c
    BY DEF RescheduleMoves
  <2>3. \A o \in Bookings \ {n} : booking'[o].from = booking[o].from /\ booking'[o].count = booking[o].count
                                  /\ booking'[o].citizen = booking[o].citizen
    BY <1>17
  <2>4. b # None BY <1>2, NoneAssumption
  <2>5. CASE c = n
    BY <1>2, <1>3, <1>8, <1>17, <2>1, <2>3, <2>4, <2>5
  <2>6. CASE c # n
    <3> DEFINE a == booking[c].from
    <3>1. a \in Bookings \ {b, n} /\ a # None BY <2>1, <2>2, <2>3, <2>6
    <3>2. /\ booking[a].status = "cancelled" /\ booking[c].count = booking[a].count + 1
          /\ booking[c].citizen = booking[a].citizen
          /\ \A o \in Bookings : booking[o].from = a => o = c
      BY <3>1 DEF IInv, RescheduleMoves
    <3>3. booking'[a] = booking[a] BY <1>17, <3>1
    <3>4. booking'[n].from # a BY <1>8, <1>17, <3>1
    <3> QED BY <2>3, <2>6, <3>1, <3>2, <3>3, <3>4
  <2> QED BY <2>5, <2>6
<1>22. \A c \in Bookings : Filled(booking'[c])
  BY <1>2, <1>3, <1>7, <1>8, <1>a, <1>17 DEF IInv, Filled
<1> QED
  <2>1. \A c \in Bookings : \/ booking'[c] = booking[c] \/ booking[c].status = "none"
                            \/ q.locked /\ q.booking = c
    BY <1>2, <1>3, <1>17
  <2>2. \A c \in Bookings : booking[c].status # "none" =>
          booking'[c].status # "none" /\ booking'[c].slot = booking[c].slot
    BY <1>2, <1>3, <1>17
  <2>3. \A t \in Slots \ q.held : slot'[t] = slot[t] BY <1>10, <1>16
  <2> QED BY <1>2, <1>4, <1>16, <1>18, <1>19, <1>20, <1>21, <1>22, <2>1, <2>2, <2>3, CommitStep

\* mark_no_show: the mark, under the lock of the booking.
LEMMA CommitNoShowStep ==
  ASSUME IInv, NEW r \in Requests, CommitNoShow(r) PROVE IInv'
<1> DEFINE b == request[r].booking
           row == [booking[b] EXCEPT !.noShow = TRUE]
<1>1. Shaped(request[r]) /\ Informed(request[r]) /\ request[r].kind = "noShow"
      /\ ~WantsBooking(r) /\ Done(r) /\ UNCHANGED slot
  BY DEF IInv, CommitNoShow, Ready
<1>2. b \in Bookings /\ request[r].locked BY <1>1, NoneAssumption DEF Shaped, WantsBooking
<1>3. booking[b] \in Row /\ booking[b].status = "confirmed" /\ Filled(booking[b])
  BY <1>1, <1>2 DEF IInv, TypeOK, Informed, Permitted, Markable
<1>4. /\ row \in Row /\ row.status = booking[b].status /\ row.slot = booking[b].slot
      /\ row.citizen = booking[b].citizen /\ row.from = booking[b].from
      /\ row.count = booking[b].count
  BY <1>3 DEF Row
<1>5. booking' = [booking EXCEPT ![b] = row]
  BY <1>2, <1>3 DEF CommitNoShow, IInv, TypeOK
<1> HIDE DEF b, row
<1>6. \A c \in Bookings : booking'[c] = IF c = b THEN row ELSE booking[c]
  BY <1>5 DEF IInv, TypeOK
<1>7. booking' \in [Bookings -> Row] /\ slot' \in [Slots -> SlotRow]
  BY <1>1, <1>4, <1>5 DEF IInv, TypeOK
<1>8. \A c \in Bookings : Filled(booking'[c]) BY <1>3, <1>4, <1>6 DEF IInv, Filled
<1>9. \A s \in Slots : Holders(s)' = Holders(s) BY <1>4, <1>6 DEF Holders
<1>10. SpacesAreExact' /\ WithinCapacity'
  BY <1>1, <1>9 DEF IInv, SpacesAreExact, WithinCapacity
<1>11. RescheduleMoves' BY <1>4, <1>6, ChainKept
<1>12. \A c \in Bookings : booking'[c] = booking[c] \/ (request[r].locked /\ request[r].booking = c)
  BY <1>2, <1>6 DEF b
<1>13. \A c \in Bookings : booking[c].status # "none" =>
         booking'[c].status # "none" /\ booking'[c].slot = booking[c].slot
  BY <1>4, <1>6
<1>14. \A s \in Slots \ request[r].held : slot'[s] = slot[s] BY <1>1
<1> QED BY <1>1, <1>7, <1>8, <1>10, <1>11, <1>12, <1>13, <1>14, CommitStep

\* mark_past_slots_completed: the rows it has locked get another status.
LEMMA CommitPastStep ==
  ASSUME IInv, NEW r \in Requests, CommitPast(r) PROVE IInv'
<1>1. Done(r) /\ UNCHANGED booking BY DEF CommitPast
<1>2. slot \in [Slots -> SlotRow] /\ booking \in [Bookings -> Row] BY DEF IInv, TypeOK
<1>3. \A v \in SlotRow : /\ [v EXCEPT !.status = "closed"] \in SlotRow
                         /\ [v EXCEPT !.status = "closed"].used = v.used
                         /\ [v EXCEPT !.status = "closed"].capacity = v.capacity
  BY DEF SlotRow
<1>4. slot' = [s \in Slots |-> IF s \in request[r].held
                               THEN [slot[s] EXCEPT !.status = "closed"] ELSE slot[s]]
  BY DEF CommitPast
<1>5. \A s \in Slots : /\ slot'[s] \in SlotRow /\ slot'[s].used = slot[s].used
                       /\ slot'[s].capacity = slot[s].capacity
                       /\ s \notin request[r].held => slot'[s] = slot[s]
  BY <1>2, <1>3, <1>4
<1>6. slot' \in [Slots -> SlotRow] BY <1>4, <1>5
<1>7. \A s \in Slots : Holders(s)' = Holders(s) BY <1>1 DEF Holders
<1>8. SpacesAreExact' /\ WithinCapacity'
  BY <1>5, <1>7 DEF IInv, SpacesAreExact, WithinCapacity
<1>9. RescheduleMoves' BY <1>1 DEF IInv, RescheduleMoves
<1>10. \A b \in Bookings : Filled(booking'[b]) BY <1>1 DEF IInv
<1>11. booking' \in [Bookings -> Row] /\ \A b \in Bookings : booking'[b] = booking[b]
  BY <1>1, <1>2
<1> QED BY <1>1, <1>5, <1>6, <1>8, <1>9, <1>10, <1>11, CommitStep

----------------------------------------------------------------------------
(* The invariant, and what follows from it.                                *)

LEMMA InvStep == IInv /\ [Next]_vars => IInv'
<1> SUFFICES ASSUME IInv, [Next]_vars PROVE IInv' OBVIOUS
<1>1. ASSUME NEW r \in Requests, Starts(r) PROVE IInv' BY <1>1, StartsStep
<1>2. ASSUME NEW r \in Requests, Locks(r) \/ Abort(r) PROVE IInv'
  BY <1>2, LockBookingStep, LockSlotStep, LockRecordStep, AbortStep DEF Locks
<1>3. ASSUME NEW r \in Requests, Commits(r) PROVE IInv'
  BY <1>3, CommitCreateStep, CommitModifyStep, CommitRescheduleStep, CommitNoShowStep,
     CommitPastStep DEF Commits
<1>4. ASSUME NEW b \in Bookings, Confirm(b) PROVE IInv' BY <1>4, ConfirmStep
<1>5. ASSUME NEW s \in Slots,
             CloseSlot(s) \/ \E status \in EventStatuses : EventStatus(s, status)
      PROVE  IInv'
  BY <1>5, CallsAssumption, SlotStatusStep DEF CloseSlot, EventStatus
<1>6. ASSUME NEW s \in Slots, NEW n \in Capacities[s], EventCapacity(s, n) PROVE IInv'
  BY <1>6, EventCapacityStep
<1>7. CASE UNCHANGED vars
  <2>1. UNCHANGED <<slot, booking, request>> BY <1>7 DEF vars
  <2>2. TypeOK' BY <2>1 DEF IInv, TypeOK
  <2>3. (\A r \in Requests : Shaped(request[r]) /\ Informed(request[r]) /\ Reserved(request[r]))'
    BY <2>1 DEF IInv, Shaped, Informed, Wanted, Affected, Permitted, Reserved, Bookable
  <2>4. (\A r, q \in Requests : r # q => Apart(request[r], request[q]))'
    BY <2>1 DEF IInv, Apart
  <2>5. /\ (\A b \in Bookings : Filled(booking[b]))' /\ WithinCapacity' /\ SpacesAreExact'
        /\ RescheduleMoves'
    BY <2>1 DEF IInv, Filled, WithinCapacity, SpacesAreExact, Holders, RescheduleMoves
  <2> QED BY <2>2, <2>3, <2>4, <2>5 DEF IInv
<1> QED BY <1>1, <1>2, <1>3, <1>4, <1>5, <1>6, <1>7 DEF Next

\* Whatever requests, staff and tasks interleave, the inductive invariant holds
\* (booking.py, slots.py, govstack_appointment.py, govstack_event.py).
THEOREM Invariance == Spec => []IInv
BY InvInit, InvStep, PTL DEF Spec

\* Every row and every request in progress has its type.
THEOREM TypeCorrect == Spec => []TypeOK
<1>1. IInv => TypeOK BY DEF IInv
<1> QED BY <1>1, Invariance, PTL

\* spaces_used is the number of bookings that keep a space in the slot, for any
\* number of concurrent creations, moves and cancellations (create_booking,
\* reschedule_booking, cancel_booking, reject_booking).
THEOREM SpacesExact == Spec => []SpacesAreExact
<1>1. IInv => SpacesAreExact BY DEF IInv
<1> QED BY <1>1, Invariance, PTL

\* No slot ever has more bookings than places (create_booking, reschedule_booking and
\* the check constraint on spaces_used).
THEOREM NoOverbooking == Spec => []NeverOverbooked
<1>1. IInv => NeverOverbooked
  BY DEF IInv, WithinCapacity, SpacesAreExact, NeverOverbooked
<1> QED BY <1>1, Invariance, PTL

\* A rescheduled appointment is one appointment: cancelled where it was, with one
\* successor that counts the moves (reschedule_booking).
THEOREM MovesNotDoubles == Spec => []RescheduleMoves
<1>1. IInv => RescheduleMoves BY DEF IInv
<1> QED BY <1>1, Invariance, PTL

\* A record is held by a request that waits for slots still, or for nothing.
LEMMA HolderIsInOrder ==
  ASSUME IInv, NEW q \in Requests, request[q].record = "held", ~OutOfOrder(q)
  PROVE  WaitsFor(q) = {}
<1>1. Shaped(request[q]) /\ request[q].todo = {} BY DEF IInv, OutOfOrder
<1>2. ~WantsBooking(q) /\ ~WantsRecord(q) BY <1>1 DEF Shaped, WantsBooking, WantsRecord
<1> QED BY <1>1, <1>2 DEF WaitsFor

\* Requests that lock in order make no circle: nobody among them waits for a record,
\* whose holder waits for none; who has the booking that is waited for waits for a slot;
\* and of those that wait for a slot, the one whose next slot is the last waits for a
\* holder of that slot, which then waits for a later one.
LEMMA NoCircle == IInv => OrderedNeverCircle
<1> SUFFICES ASSUME IInv, NEW S \in SUBSET {r \in Requests : ~OutOfOrder(r)}, CircleIn(S)
             PROVE  FALSE
  BY DEF OrderedNeverCircle
<1> DEFINE Lined == {r \in S : ~WantsBooking(r) /\ request[r].todo # {}}
           Nexts == {NextLock(r) : r \in Lined}
<1>1. ASSUME NEW q \in S
      PROVE  /\ q \in Requests /\ ~OutOfOrder(q) /\ request[q] \in Call /\ Shaped(request[q])
             /\ request[q].kind # "past" /\ WaitsFor(q) \cap S # {}
  BY DEF IInv, TypeOK, CircleIn, OutOfOrder
<1>2. ASSUME NEW q \in S PROVE request[q].record # "held"
  BY <1>1, <1>2, HolderIsInOrder
<1>3. ASSUME NEW q \in S, ~WantsBooking(q)
      PROVE  q \in Lined /\ \E p \in S : NextLock(q) \in request[p].held
  <2>1. ~WantsRecord(q)
    <3>1. WantsRecord(q) => \E p \in S : request[p].record = "held"
      BY <1>1, <1>3 DEF WaitsFor, RecordHolders
    <3> QED BY <1>2, <3>1
  <2> QED BY <1>1, <1>3, <2>1 DEF WaitsFor
<1>4. Lined # {}
  <2>1. PICK r \in S : TRUE BY DEF CircleIn
  <2>2. CASE ~WantsBooking(r) BY <1>3, <2>2
  <2>3. CASE WantsBooking(r)
    <3>1. PICK q \in S : request[q].locked BY <1>1, <2>3 DEF WaitsFor
    <3>2. ~WantsBooking(q) BY <3>1 DEF WantsBooking
    <3> QED BY <1>3, <3>2
  <2> QED BY <2>2, <2>3
<1>5. \A q \in Lined : NextLock(q) \in request[q].todo /\ NextLock(q) \in Slots
  BY <1>1, NextIsFirst DEF NextLock, Call
<1>6. PICK q \in Lined : \A p \in Lined : NextLock(p) <= NextLock(q)
  <2>1. Nexts \in SUBSET Slots /\ Nexts # {} BY <1>4, <1>5
  <2>2. PICK m \in Nexts : \A y \in Nexts : y <= m
    <3> HIDE DEF Nexts
    <3> QED BY <2>1, Extremes
  <2> QED BY <2>2
<1>7. PICK p \in S : NextLock(q) \in request[p].held BY <1>3, <1>6
<1>8. ~WantsBooking(p) BY <1>1, <1>7 DEF Shaped, WantsBooking
<1>9. p \in Lined BY <1>3, <1>8
<1>10. NextLock(q) < NextLock(p) BY <1>1, <1>5, <1>7, <1>9 DEF Shaped
<1>11. NextLock(p) <= NextLock(q) /\ NextLock(p) \in Nat /\ NextLock(q) \in Nat
  BY <1>5, <1>6, <1>9, SlotsAssumption
<1> QED BY <1>10, <1>11

\* Every circle of waiting requests has the UPDATE of the past slots in it, or a request
\* that holds a no-show record and still waits for slots; creations, moves, cancellations
\* and no-show marks never make one among themselves (appointment_create,
\* reschedule_booking, cancel_booking, mark_no_show).
THEOREM LocksNeverCircle == Spec => []OrderedNeverCircle
BY NoCircle, Invariance, PTL

\* One step keeps the outcome of every booking.
LEMMA OutcomeStep ==
  ASSUME IInv, [Next]_vars, NEW b \in Bookings
  PROVE  /\ booking[b].status \in Terminal => booking'[b].status = booking[b].status
         /\ booking[b].status = "confirmed" => booking'[b].status # "pending"
         /\ booking[b].status # "none" => booking'[b].status # "none"
<1> DEFINE Kept == booking'[b].status = booking[b].status
           Moved == TransitionAllowed(booking[b].status, booking'[b].status)
<1> SUFFICES Kept \/ Moved \/ booking[b].status = "none"
  BY DEF TransitionAllowed, Terminal, Live
<1>0. booking \in [Bookings -> Row] BY DEF IInv, TypeOK
<1>1. ASSUME NEW r \in Requests, CommitCreate(r) PROVE Kept \/ booking[b].status = "none"
  <2> DEFINE New(s) == [NoBooking EXCEPT
               !.status = IF s \in NeedsConfirmation THEN "pending" ELSE "confirmed",
               !.slot = s, !.citizen = request[r].citizen, !.exclusive = request[r].exclusive]
  <2>1. PICK f \in [request[r].held -> Unused] :
          booking' = [c \in Bookings |->
                        IF \E s \in request[r].held : f[s] = c
                        THEN New(CHOOSE s \in request[r].held : f[s] = c) ELSE booking[c]]
    BY <1>1 DEF CommitCreate
  <2> HIDE DEF New
  <2>2. CASE \E s \in request[r].held : f[s] = b BY <2>2 DEF Unused
  <2>3. CASE ~\E s \in request[r].held : f[s] = b BY <2>1, <2>3
  <2> QED BY <2>2, <2>3
<1>2. ASSUME NEW r \in Requests, CommitModify(r) PROVE Kept \/ Moved
  <2>1. PICK q \in Call, c \in Bookings :
          /\ q = request[r] /\ c = q.booking /\ q.target = None /\ Permitted(q, booking[c])
    BY <1>2, ModifyLocked DEF CommitModify
  <2>2. booking' = [booking EXCEPT
          ![c].status = IF q.status = None THEN @ ELSE q.status,
          ![c].exclusive = IF q.exclusive = None THEN @ ELSE q.exclusive]
    BY <1>2, <2>1 DEF CommitModify
  <2>3. b # c => Kept BY <1>0, <2>2
  <2>4. b = c /\ q.status = None => Kept BY <1>0, <2>2 DEF Row
  <2>5. b = c /\ q.status # None => booking'[b].status = q.status BY <1>0, <2>2 DEF Row
  <2> QED BY <2>1, <2>3, <2>4, <2>5 DEF Permitted
<1>3. ASSUME NEW r \in Requests, NEW n \in Unused, CommitReschedule(r, n)
      PROVE  Kept \/ Moved \/ booking[b].status = "none"
  <2>1. PICK q \in Call, c \in Bookings :
          /\ q = request[r] /\ c = q.booking /\ q.target # None /\ Permitted(q, booking[c])
    BY <1>3, ModifyLocked DEF CommitReschedule
  <2>2. booking[c].status = "confirmed" BY <2>1 DEF Permitted, Reschedulable
  <2>3. n \in Bookings /\ booking[n].status = "none" /\ n # c BY <2>2 DEF Unused
  <2>4. booking'[c].status = "cancelled" /\ \A a \in Bookings \ {c, n} : booking'[a] = booking[a]
    BY <1>0, <1>3, <2>1, <2>3 DEF CommitReschedule, Row
  <2> QED BY <2>2, <2>3, <2>4 DEF TransitionAllowed, Live
<1>4. ASSUME NEW c \in Bookings, Confirm(c) PROVE Kept \/ Moved
  BY <1>0, <1>4 DEF Confirm, Row
<1>5. ASSUME NEW r \in Requests, CommitNoShow(r) \/ CommitPast(r) PROVE Kept
  BY <1>0, <1>5 DEF CommitNoShow, CommitPast, Row
<1>6. ASSUME NEW r \in Requests, Starts(r) \/ Locks(r) \/ Abort(r) PROVE Kept
  BY <1>6 DEF Starts, CreateStarts, CleanupStarts, ModifyStarts, NoShowStarts, PastStarts, Begin,
              Locks, LockBooking, LockSlot, LockRecord, Abort
<1>7. ASSUME NEW s \in Slots,
             \/ CloseSlot(s) \/ \E status \in EventStatuses : EventStatus(s, status)
             \/ \E n \in Capacities[s] : EventCapacity(s, n)
      PROVE  Kept
  BY <1>7 DEF CloseSlot, EventStatus, EventCapacity, SetSlot
<1>8. CASE UNCHANGED vars BY <1>8 DEF vars
<1> QED BY <1>1, <1>2, <1>3, <1>4, <1>5, <1>6, <1>7, <1>8 DEF Next, Commits

\* A cancelled, rejected or completed booking stays so, and nothing returns to pending,
\* for every interleaving (confirm_booking, reject_booking, cancel_booking,
\* complete_booking, reschedule_booking).
THEOREM OutcomesFinal == Spec => OutcomeIsFinal
<1>1. IInv /\ [Next]_vars =>
        \A b \in Bookings :
          LET from == booking[b].status
              to   == booking'[b].status
          IN  /\ from \in Terminal => to = from
              /\ from = "confirmed" => to # "pending"
              /\ from # "none" => to # "none"
  BY OutcomeStep
<1>2. IInv /\ [Next]_vars =>
        [\A b \in Bookings :
          LET from == booking[b].status
              to   == booking'[b].status
          IN  /\ from \in Terminal => to = from
              /\ from = "confirmed" => to # "pending"
              /\ from # "none" => to # "none"]_vars
  BY <1>1
<1> QED BY <1>2, Invariance, PTL DEF Spec, OutcomeIsFinal
=============================================================================
