------------------------- MODULE AlertDeliveryProofs -------------------------
(***************************************************************************)
(* Proofs about AlertDelivery, for any recipients, workers, publishers,    *)
(* generations, budgets, claims and copies of messages.                    *)
(*                                                                         *)
(* A row has two sides: the delivery, which workers claim, and the outbox  *)
(* row, which publishers claim.  The invariant has one part for each, and  *)
(* most steps touch only one.                                              *)
(***************************************************************************)
EXTENDS AlertDelivery, TLAPS

\* Rows a worker may still record something for, now or after a replay.
Alive == Open \cup {"dead_letter"}

\* A lease belongs to a row in flight and is named by its attempt.
LeaseInv ==
  \A k \in Keys :
    IF delivery[k].status = "in_flight"
    THEN delivery[k].token = delivery[k].attempts /\ delivery[k].attempts > 0
    ELSE delivery[k].token = 0 /\ ~delivery[k].live

\* What a worker's claim says of its row.
Holds(w) ==
  worker[w] # Idle =>
    LET d == delivery[worker[w].key]
    IN  /\ worker[w].key \in Keys /\ worker[w].token > 0
        /\ d.status \in Alive => worker[w].token <= d.attempts
        /\ schedule.exists => d.status # "absent"

HolderInv == \A w \in Workers : Holds(w)

\* No two workers have claimed with the same token.
UniqueInv ==
  \A v, w \in Workers :
    v # w /\ worker[v] # Idle /\ worker[v].key = worker[w].key => worker[v].token # worker[w].token

\* A worker with a valid lease posts the alert of its row's own generation.
Posts(w) ==
  worker[w] # Idle /\ ValidLease(w) /\ worker[w].key \notin revived =>
    /\ worker[w].pc = "post" => worker[w].own
    /\ worker[w].pc = "delivered" => worker[w].key \in received

PostInv == \A w \in Workers : Posts(w)

WorkerSide == LeaseInv /\ HolderInv /\ UniqueInv /\ PostInv /\ DeliveredIsReceived

\* A delivery has its outbox row.
PairInv == \A k \in Keys : delivery[k].status = "absent" <=> outbox[k].state = "absent"

Busy(p) == publisher[p].pc \in {"enqueue", "published", "failed"}

\* What a publisher's claim says of its row: it was drawn from it, and a message
\* handed over is still there while nobody has claimed the delivery.
Publishes(p) ==
  Busy(p) =>
    LET k == publisher[p].key
    IN  /\ k \in Keys
        /\ outbox[k].state \in Unpublished => publisher[p].gen <= outbox[k].gen
        /\ schedule.exists => outbox[k].state # "absent"
        /\ publisher[p].pc = "published" /\ OwnsOutbox(p) /\ delivery[k].status = "pending"
             => messages[k] > 0

PublisherInv == \A p \in Publishers : Publishes(p)

PublisherSide == PairInv /\ PublisherInv /\ WorkIsCarried

IInv == TypeOK /\ SupersededIsQuiet /\ WorkerSide /\ PublisherSide

----------------------------------------------------------------------------
LEMMA InitInv == Init => IInv
<1> SUFFICES ASSUME Init PROVE IInv
  OBVIOUS
<1>1. TypeOK
  BY AlertAssumption DEF Init, TypeOK, DeliveryRow, OutboxRow, NoDelivery, NoOutbox, Off, Idle,
     Open, TERMINAL, Unpublished, Waiting
<1>2. \A k \in Keys : delivery[k] = NoDelivery /\ outbox[k] = NoOutbox
  BY DEF Init
<1>3. SupersededIsQuiet
  BY <1>2 DEF SupersededIsQuiet, NoDelivery, NoOutbox, Open, Unpublished, Waiting
<1>4. WorkerSide
  BY <1>2 DEF Init, WorkerSide, LeaseInv, HolderInv, Holds, UniqueInv, PostInv, Posts,
     DeliveredIsReceived, NoDelivery
<1>5. PublisherSide
  <2>1. \A p \in Publishers : ~Busy(p)
    BY DEF Init, Busy, Off
  <2>2. PairInv /\ WorkIsCarried
    BY <1>2 DEF PairInv, WorkIsCarried, NoDelivery, NoOutbox
  <2> QED  BY <2>1, <2>2 DEF PublisherSide, PublisherInv, Publishes
<1> QED  BY <1>1, <1>3, <1>4, <1>5 DEF IInv

----------------------------------------------------------------------------
(* Frames.                                                                 *)

\* The publishers' steps leave the workers' side alone.
LEMMA WorkerFrame ==
  ASSUME IInv, UNCHANGED <<schedule, delivery, worker, received, revived>>
  PROVE  WorkerSide'
  BY DEF IInv, WorkerSide, LeaseInv, HolderInv, Holds, UniqueInv, PostInv, Posts, ValidLease,
     DeliveredIsReceived

\* A row keeps its lease, or loses it for good.
Released(k) ==
  /\ delivery'[k].status # "in_flight" /\ delivery'[k].token = 0 /\ ~delivery'[k].live
  /\ delivery'[k].status \in Alive =>
       delivery[k].status \in Alive /\ delivery'[k].attempts = delivery[k].attempts
  /\ schedule'.exists /\ delivery'[k].status = "absent" => delivery[k].status = "absent"
  /\ delivery'[k].status \in {"delivered", "acknowledged"} => k \in received' \cup revived'

Kept(k) ==
  /\ delivery'[k].status = delivery[k].status
  /\ delivery'[k].attempts = delivery[k].attempts
  /\ delivery'[k].token = delivery[k].token
  /\ delivery'[k].live => delivery[k].live

\* Rows are released and workers end.
LEMMA ReleaseFrame ==
  ASSUME IInv, \A k \in Keys : Kept(k) \/ Released(k),
         \A w \in Workers : worker'[w] = worker[w] \/ worker'[w] = Idle,
         schedule'.exists => schedule.exists, received \subseteq received', revived \subseteq revived'
  PROVE  WorkerSide'
<1>1. LeaseInv'
  <2> SUFFICES ASSUME NEW k \in Keys
               PROVE  IF delivery'[k].status = "in_flight"
                      THEN delivery'[k].token = delivery'[k].attempts /\ delivery'[k].attempts > 0
                      ELSE delivery'[k].token = 0 /\ ~delivery'[k].live
    BY DEF LeaseInv
  <2>1. CASE Kept(k)  BY <2>1 DEF Kept, IInv, WorkerSide, LeaseInv
  <2>2. CASE Released(k)  BY <2>2 DEF Released
  <2> QED  BY <2>1, <2>2
<1>2. HolderInv'
  <2> SUFFICES ASSUME NEW w \in Workers, worker'[w] # Idle PROVE Holds(w)'
    BY DEF HolderInv, Holds
  <2>1. worker'[w] = worker[w] /\ Holds(w)  BY DEF IInv, WorkerSide, HolderInv
  <2>2. PICK k \in Keys : k = worker[w].key  BY <2>1 DEF Holds
  <2>3. CASE Kept(k)  BY <2>1, <2>2, <2>3 DEF Kept, Holds
  <2>4. CASE Released(k)  BY <2>1, <2>2, <2>4 DEF Holds, Released
  <2> QED  BY <2>3, <2>4
<1>3. UniqueInv'
  <2> SUFFICES ASSUME NEW v \in Workers, NEW w \in Workers, v # w, worker'[v] # Idle,
                      worker'[v].key = worker'[w].key
               PROVE  worker'[v].token # worker'[w].token
    BY DEF UniqueInv
  <2>1. worker'[v] = worker[v] /\ worker[v].key \in Keys  BY DEF IInv, WorkerSide, HolderInv, Holds
  <2>2. worker'[w] = worker[w]  BY <2>1, NoneIsNoKey DEF Idle
  <2> QED  BY <2>1, <2>2 DEF IInv, WorkerSide, UniqueInv
<1>4. PostInv'
  <2> SUFFICES ASSUME NEW w \in Workers, worker'[w] # Idle, ValidLease(w)', worker'[w].key \notin revived'
               PROVE  Posts(w)'
    BY DEF PostInv, Posts
  <2>1. worker'[w] = worker[w] /\ Posts(w) /\ Holds(w)
    BY DEF IInv, WorkerSide, PostInv, HolderInv
  <2>2. PICK k \in Keys : k = worker[w].key  BY <2>1 DEF Holds
  <2>3. Kept(k)  BY <2>1, <2>2 DEF ValidLease, Released
  <2>4. ValidLease(w)  BY <2>1, <2>2, <2>3 DEF Kept, ValidLease
  <2> QED  BY <2>1, <2>2, <2>4 DEF Posts
<1>5. DeliveredIsReceived'
  <2> SUFFICES ASSUME NEW k \in Keys, k \notin revived',
                      delivery'[k].status \in {"delivered", "acknowledged"}
               PROVE  k \in received'
    BY DEF DeliveredIsReceived
  <2>1. CASE Kept(k)  BY <2>1 DEF Kept, IInv, WorkerSide, DeliveredIsReceived
  <2>2. CASE Released(k)  BY <2>2 DEF Released
  <2> QED  BY <2>1, <2>2
<1> QED  BY <1>1, <1>2, <1>3, <1>4, <1>5 DEF WorkerSide

\* The workers' steps leave the publishers' side alone, when they give up only
\* spent deliveries and use messages only of deliveries that are taken.
LEMMA PublisherFrame ==
  ASSUME IInv, UNCHANGED <<outbox, publisher>>, schedule'.exists => schedule.exists,
         \A k \in Keys :
           /\ delivery'[k].status = "absent" <=> delivery[k].status = "absent"
           /\ delivery'[k].status = "pending" =>
                delivery[k].status = "pending" /\ (messages[k] > 0 => messages'[k] > 0)
           /\ delivery'[k].status = "dead_letter" => delivery'[k].attempts >= MaxAttempts
  PROVE  PublisherSide'
<1>1. PairInv'  BY DEF IInv, PublisherSide, PairInv
<1>2. PublisherInv'
  <2> SUFFICES ASSUME NEW p \in Publishers, Busy(p)' PROVE Publishes(p)'
    BY DEF PublisherInv, Publishes
  <2>1. Publishes(p) /\ Busy(p)  BY DEF IInv, PublisherSide, PublisherInv, Busy
  <2>2. PICK k \in Keys : k = publisher[p].key  BY <2>1 DEF Publishes
  <2> QED  BY <2>1, <2>2 DEF Publishes, OwnsOutbox
<1>3. WorkIsCarried'  BY DEF IInv, PublisherSide, WorkIsCarried
<1> QED  BY <1>1, <1>2, <1>3 DEF PublisherSide

\* Nothing of a superseded generation is opened.
LEMMA QuietFrame ==
  ASSUME IInv, UNCHANGED schedule, revived \subseteq revived',
         \A k \in Keys :
           /\ delivery'[k].status \in Open =>
                delivery[k].status \in Open \/ k \in revived' \/ ~Superseded(k)
           /\ outbox'[k].state \in Unpublished => outbox[k].state \in Unpublished
  PROVE  SupersededIsQuiet'
  BY DEF IInv, SupersededIsQuiet, Superseded

----------------------------------------------------------------------------
(* The schedule.                                                           *)

\* A fence cancels what is open and leaves the rest.
LEMMA FenceFacts ==
  ASSUME IInv, Fence, NEW k \in Keys
  PROVE  /\ delivery'[k] \in DeliveryRow /\ outbox'[k] \in OutboxRow
         /\ delivery'[k].status \notin Open /\ outbox'[k].state \notin Unpublished
         /\ Released(k) \/ delivery'[k] = delivery[k]
         /\ delivery'[k].status = "absent" <=> delivery[k].status = "absent"
         /\ outbox'[k].state = "absent" <=> outbox[k].state = "absent"
         /\ delivery'[k].status = "dead_letter" => delivery'[k] = delivery[k]
<1>0. delivery[k] \in DeliveryRow /\ outbox[k] \in OutboxRow
  BY DEF IInv, TypeOK
<1>1. /\ outbox'[k] \in OutboxRow /\ outbox'[k].state \notin Unpublished
      /\ outbox'[k].state = "absent" <=> outbox[k].state = "absent"
  <2>1. CASE outbox[k].state \in Unpublished
    <3>1. outbox'[k] = [state |-> "cancelled", attempts |-> 0, gen |-> 0, live |-> FALSE]
      BY <2>1 DEF Fence, NoOutbox
    <3> QED  BY <2>1, <3>1, AlertAssumption DEF OutboxRow, Unpublished, Waiting
  <2>2. CASE outbox[k].state \notin Unpublished
    BY <1>0, <2>2 DEF Fence
  <2> QED  BY <2>1, <2>2
<1>2. /\ delivery'[k] \in DeliveryRow /\ delivery'[k].status \notin Open
      /\ Released(k) \/ delivery'[k] = delivery[k]
      /\ delivery'[k].status = "absent" <=> delivery[k].status = "absent"
      /\ delivery'[k].status = "dead_letter" => delivery'[k] = delivery[k]
  <2>1. CASE delivery[k].status \in Open
    <3>1. delivery'[k] = [status |-> "cancelled", attempts |-> 0, token |-> 0, live |-> FALSE]
      BY <2>1 DEF Fence, NoDelivery, Fenceable
    <3> QED  BY <2>1, <3>1 DEF DeliveryRow, Released, Alive, Open, TERMINAL
  <2>2. CASE delivery[k].status \notin Open
    BY <1>0, <2>2 DEF Fence, Fenceable
  <2> QED  BY <2>1, <2>2
<1> QED  BY <1>1, <1>2

LEMMA FenceStep ==
  ASSUME IInv, Fence, UNCHANGED <<processes, revived>>,
         schedule' \in [exists: BOOLEAN, gen: 0 .. MaxGen, admittable: BOOLEAN],
         schedule'.exists = schedule.exists
  PROVE  IInv'
<1>1. TypeOK'
  BY FenceFacts DEF IInv, TypeOK, Fence, processes
<1>2. SupersededIsQuiet'
  BY FenceFacts DEF SupersededIsQuiet
<1>3. WorkerSide'
  BY FenceFacts, ReleaseFrame DEF processes, Kept
<1>4. PairInv'
  BY FenceFacts DEF IInv, PublisherSide, PairInv
<1>5. PublisherInv'
  <2> SUFFICES ASSUME NEW p \in Publishers, Busy(p)' PROVE Publishes(p)'
    BY DEF PublisherInv, Publishes
  <2>1. Publishes(p) /\ Busy(p) /\ UNCHANGED publisher
    BY DEF IInv, PublisherSide, PublisherInv, Busy, processes
  <2>2. PICK k \in Keys : k = publisher[p].key  BY <2>1 DEF Publishes
  <2> QED  BY <2>1, <2>2, FenceFacts DEF Publishes, OwnsOutbox, Unpublished
<1>6. WorkIsCarried'
  BY FenceFacts DEF IInv, PublisherSide, WorkIsCarried, Open
<1> QED  BY <1>1, <1>2, <1>3, <1>4, <1>5, <1>6 DEF IInv, PublisherSide

LEMMA ScheduleStep ==
  ASSUME IInv, Modify \/ CancelSchedule \/ RearmSchedule
  PROVE  IInv'
<1>1. schedule \in [exists: BOOLEAN, gen: 0 .. MaxGen, admittable: BOOLEAN]
  BY DEF IInv, TypeOK
<1>2. /\ schedule' \in [exists: BOOLEAN, gen: 0 .. MaxGen, admittable: BOOLEAN]
      /\ schedule'.exists = schedule.exists
  <2>1. CASE NextGeneration
    <3>1. schedule.gen + 1 \in 0 .. MaxGen
      BY <1>1, <2>1, AlertAssumption DEF NextGeneration
    <3>2. schedule' = [exists |-> schedule.exists, gen |-> schedule.gen + 1, admittable |-> TRUE]
      BY <1>1, <2>1 DEF NextGeneration
    <3> QED  BY <1>1, <3>1, <3>2
  <2>2. CASE schedule' = [schedule EXCEPT !.admittable = FALSE]
    BY <1>1, <2>2
  <2> QED  BY <2>1, <2>2 DEF Modify, CancelSchedule, RearmSchedule
<1> QED  BY <1>2, FenceStep DEF Modify, CancelSchedule, RearmSchedule

LEMMA DeleteStep ==
  ASSUME IInv, DeleteSchedule
  PROVE  IInv'
<1>0. /\ ~schedule'.exists /\ schedule.exists
      /\ \A k \in Keys : delivery'[k] = NoDelivery /\ outbox'[k] = NoOutbox
  BY DEF DeleteSchedule
<1>1. TypeOK'
  BY AlertAssumption DEF IInv, TypeOK, DeleteSchedule, processes, DeliveryRow, OutboxRow, NoDelivery,
     NoOutbox
<1>2. SupersededIsQuiet'
  BY <1>0 DEF SupersededIsQuiet, NoDelivery, NoOutbox, Open, Unpublished, Waiting
<1>3. WorkerSide'
  <2>1. \A k \in Keys : Released(k)
    BY <1>0 DEF Released, NoDelivery, Alive, Open
  <2> QED  BY <1>0, <2>1, ReleaseFrame DEF DeleteSchedule, processes
<1>4. PairInv' /\ WorkIsCarried'
  BY <1>0 DEF PairInv, WorkIsCarried, NoDelivery, NoOutbox
<1>5. PublisherInv'
  <2> SUFFICES ASSUME NEW p \in Publishers, Busy(p)' PROVE Publishes(p)'
    BY DEF PublisherInv, Publishes
  <2>1. Publishes(p) /\ Busy(p) /\ UNCHANGED publisher
    BY DEF IInv, PublisherSide, PublisherInv, Busy, DeleteSchedule, processes
  <2>2. PICK k \in Keys : k = publisher[p].key  BY <2>1 DEF Publishes
  <2> QED  BY <1>0, <2>1, <2>2 DEF Publishes, NoDelivery, NoOutbox, Unpublished, Waiting
<1> QED  BY <1>1, <1>2, <1>3, <1>4, <1>5 DEF IInv, PublisherSide

\* Only rows of the current generation are created, each with its outbox row;
\* nobody has claimed one before.
LEMMA DispatchStep ==
  ASSUME IInv, NEW to \in SUBSET Recipients, Dispatch(to)
  PROVE  IInv'
<1>0. /\ schedule.exists /\ schedule.admittable
      /\ UNCHANGED <<schedule, publisher, messages, worker, received, revived>>
      /\ \A k \in Keys :
           IF k \in Created(to)
           THEN /\ delivery'[k] = [status |-> "pending", attempts |-> 0, token |-> 0, live |-> FALSE]
                /\ outbox'[k] = [state |-> "pending", attempts |-> 0, gen |-> 0, live |-> FALSE]
                /\ delivery[k].status = "absent" /\ outbox[k].state = "absent"
                /\ k[1] = schedule.gen
           ELSE delivery'[k] = delivery[k] /\ outbox'[k] = outbox[k]
  <2>1. \A k \in Created(to) :
          delivery[k].status = "absent" /\ k[1] = schedule.gen
    BY DEF Created
  <2>2. \A k \in Keys : delivery[k].status = "absent" => outbox[k].state = "absent"
    BY DEF IInv, PublisherSide, PairInv
  <2> QED  BY <2>1, <2>2 DEF Dispatch, processes, NoDelivery, NoOutbox
<1>1. TypeOK'
  <2>1. /\ [status |-> "pending", attempts |-> 0, token |-> 0, live |-> FALSE] \in DeliveryRow
        /\ [state |-> "pending", attempts |-> 0, gen |-> 0, live |-> FALSE] \in OutboxRow
    BY AlertAssumption DEF DeliveryRow, OutboxRow, Open, Unpublished, Waiting
  <2>2. \A k \in Keys : delivery'[k] \in DeliveryRow /\ outbox'[k] \in OutboxRow
    BY <1>0, <2>1 DEF IInv, TypeOK
  <2> QED  BY <1>0, <2>2 DEF IInv, TypeOK, Dispatch
<1>2. SupersededIsQuiet'
  BY <1>0 DEF IInv, SupersededIsQuiet, Superseded
<1>3. WorkerSide'
  <2>1. LeaseInv' /\ UniqueInv' /\ DeliveredIsReceived'
    BY <1>0 DEF IInv, WorkerSide, LeaseInv, UniqueInv, DeliveredIsReceived
  <2>2. \A w \in Workers : worker[w] # Idle =>
          worker[w].key \in Keys /\ delivery'[worker[w].key] = delivery[worker[w].key]
    BY <1>0 DEF IInv, WorkerSide, HolderInv, Holds
  <2>3. HolderInv' /\ PostInv'
    BY <1>0, <2>2 DEF IInv, WorkerSide, HolderInv, Holds, PostInv, Posts, ValidLease
  <2> QED  BY <2>1, <2>3 DEF WorkerSide
<1>4. PairInv' /\ WorkIsCarried'
  BY <1>0, AlertAssumption DEF IInv, PublisherSide, PairInv, WorkIsCarried, Waiting
<1>5. PublisherInv'
  <2> SUFFICES ASSUME NEW p \in Publishers, Busy(p)' PROVE Publishes(p)'
    BY DEF PublisherInv, Publishes
  <2>1. Publishes(p) /\ Busy(p)  BY <1>0 DEF IInv, PublisherSide, PublisherInv, Busy
  <2>2. PICK k \in Keys : k = publisher[p].key  BY <2>1 DEF Publishes
  <2>3. delivery'[k] = delivery[k] /\ outbox'[k] = outbox[k]
    BY <1>0, <2>1, <2>2 DEF Publishes
  <2> QED  BY <1>0, <2>1, <2>2, <2>3 DEF Publishes, OwnsOutbox
<1> QED  BY <1>1, <1>2, <1>3, <1>4, <1>5 DEF IInv, PublisherSide

----------------------------------------------------------------------------
(* The publishers.                                                         *)

\* A publisher only moves.
LEMMA PublisherMoves ==
  ASSUME IInv, NEW p \in Publishers,
         UNCHANGED <<schedule, rows, messages, worker, received, revived>>,
         publisher' \in {[publisher EXCEPT ![p] = Off],
                        [publisher EXCEPT ![p] = [Off EXCEPT !.pc = "loop"]]}
  PROVE  IInv'
<1>0. delivery' = delivery /\ outbox' = outbox
  BY DEF rows
<1>1. TypeOK'
  <2>1. Off \in [pc: {"off", "loop", "enqueue", "published", "failed"}, key: Keys \cup {None}, gen: Nat]
    BY DEF Off
  <2>2. [Off EXCEPT !.pc = "loop"]
          \in [pc: {"off", "loop", "enqueue", "published", "failed"}, key: Keys \cup {None}, gen: Nat]
    BY DEF Off
  <2>3. publisher' \in [Publishers -> [pc: {"off", "loop", "enqueue", "published", "failed"},
                                      key: Keys \cup {None}, gen: Nat]]
    <3>1. CASE publisher' = [publisher EXCEPT ![p] = Off]
      BY <2>1, <3>1 DEF IInv, TypeOK
    <3>2. CASE publisher' = [publisher EXCEPT ![p] = [Off EXCEPT !.pc = "loop"]]
      BY <2>2, <3>2 DEF IInv, TypeOK
    <3> QED  BY <3>1, <3>2
  <2> QED  BY <1>0, <2>3 DEF IInv, TypeOK
<1>2. SupersededIsQuiet' /\ WorkerSide'
  BY QuietFrame, WorkerFrame DEF rows
<1>3. PairInv' /\ WorkIsCarried'
  BY DEF IInv, PublisherSide, PairInv, WorkIsCarried, rows
<1>4. PublisherInv'
  <2>1. ~Busy(p)'  BY DEF IInv, TypeOK, Busy, Off
  <2>2. \A q \in Publishers : q # p => publisher'[q] = publisher[q]
    BY DEF IInv, TypeOK
  <2> QED  BY <2>1, <2>2 DEF IInv, PublisherSide, PublisherInv, Publishes, Busy, OwnsOutbox, rows
<1> QED  BY <1>1, <1>2, <1>3, <1>4 DEF IInv, PublisherSide

\* A publisher's step on the row k of the outbox.
LEMMA OutboxFrame ==
  ASSUME IInv, UNCHANGED <<schedule, delivery, messages, worker, received, revived>>,
         NEW k \in Keys, NEW o \in OutboxRow, outbox' = [outbox EXCEPT ![k] = o],
         outbox[k].state \in Unpublished, o.state \notin {"absent", "cancelled"},
         o.state \in Unpublished => o.gen >= outbox[k].gen,
         publisher' \in [Publishers -> [pc: {"off", "loop", "enqueue", "published", "failed"},
                                       key: Keys \cup {None}, gen: Nat]],
         \A p \in Publishers : publisher'[p] # publisher[p] => Publishes(p)',
         \A p \in Publishers :
            Busy(p) /\ publisher'[p] = publisher[p] /\ publisher[p].key = k /\ OwnsOutbox(p)'
              => OwnsOutbox(p),
         delivery[k].status = "pending" =>
            \/ o.state \in Waiting /\ o.attempts < PublishMax
            \/ o.state = "claimed"
            \/ o.state = "exhausted" /\ o.attempts = PublishMax
            \/ o.state = "published" /\ messages[k] > 0
  PROVE  IInv'
<1>0. /\ outbox'[k] = o /\ \A j \in Keys : j # k => outbox'[j] = outbox[j]
      /\ \A j \in Keys : outbox'[j].state \in Unpublished => outbox[j].state \in Unpublished
  BY DEF IInv, TypeOK
<1>1. TypeOK'
  BY DEF IInv, TypeOK
<1>2. SupersededIsQuiet' /\ WorkerSide'
  BY <1>0, QuietFrame, WorkerFrame
<1>3. PairInv'
  <2>1. outbox[k].state # "absent"  BY DEF Unpublished, Waiting
  <2> QED  BY <1>0, <2>1 DEF IInv, PublisherSide, PairInv
<1>4. WorkIsCarried'
  BY <1>0 DEF IInv, PublisherSide, WorkIsCarried
<1>5. PublisherInv'
  <2> SUFFICES ASSUME NEW p \in Publishers, Busy(p)', publisher'[p] = publisher[p]
               PROVE  Publishes(p)'
    BY DEF PublisherInv, Publishes
  <2>1. Publishes(p) /\ Busy(p)  BY DEF IInv, PublisherSide, PublisherInv, Busy
  <2>2. PICK j \in Keys : j = publisher[p].key  BY <2>1 DEF Publishes
  <2>3. CASE j # k
    BY <1>0, <2>1, <2>2, <2>3 DEF Publishes, OwnsOutbox
  <2>4. CASE j = k
    <3>1. /\ outbox[k].gen \in Nat /\ o.gen \in Nat /\ publisher[p].gen \in Nat
      BY DEF IInv, TypeOK, OutboxRow
    <3>2. OwnsOutbox(p)' => OwnsOutbox(p)
      BY <2>1, <2>2, <2>4
    <3> QED  BY <1>0, <2>1, <2>2, <2>4, <3>1, <3>2 DEF Publishes
  <2> QED  BY <2>3, <2>4
<1> QED  BY <1>1, <1>2, <1>3, <1>4, <1>5 DEF IInv, PublisherSide

LEMMA ClaimOutboxStep ==
  ASSUME IInv, NEW p \in Publishers, NEW k \in Keys, ClaimOutbox(p, k)
  PROVE  IInv'
<1> DEFINE o == [state |-> "claimed", attempts |-> outbox[k].attempts + 1,
                 gen |-> outbox[k].gen + 1, live |-> TRUE]
<1>0. outbox[k] \in OutboxRow /\ outbox \in [Keys -> OutboxRow]
  BY DEF IInv, TypeOK
<1>1. o \in OutboxRow /\ outbox' = [outbox EXCEPT ![k] = o] /\ outbox[k].state \in Unpublished
  BY <1>0, AlertAssumption DEF ClaimOutbox, HasTries, OutboxRow, Unpublished, Waiting, Claimable
<1>2. /\ publisher' = [publisher EXCEPT ![p] = [pc |-> "enqueue", key |-> k, gen |-> o.gen]]
      /\ UNCHANGED <<schedule, delivery, messages, worker, received, revived>>
  BY <1>0, <1>1 DEF ClaimOutbox
<1>3. publisher' \in [Publishers -> [pc: {"off", "loop", "enqueue", "published", "failed"},
                                    key: Keys \cup {None}, gen: Nat]]
  BY <1>1, <1>2 DEF IInv, TypeOK, OutboxRow
<1>4. \A q \in Publishers : publisher'[q] # publisher[q] => Publishes(q)'
  <2> SUFFICES ASSUME NEW q \in Publishers, publisher'[q] # publisher[q] PROVE Publishes(q)'
    OBVIOUS
  <2>1. q = p /\ publisher'[q] = [pc |-> "enqueue", key |-> k, gen |-> o.gen] /\ outbox'[k] = o
    BY <1>0, <1>1, <1>2 DEF IInv, TypeOK
  <2> QED  BY <1>1, <2>1 DEF Publishes, OutboxRow
<1>5. \A q \in Publishers : Busy(q) /\ publisher[q].key = k => publisher[q].gen <= outbox[k].gen
  BY <1>1 DEF IInv, PublisherSide, PublisherInv, Publishes
<1>6. ASSUME NEW q \in Publishers,
             Busy(q) /\ publisher'[q] = publisher[q] /\ publisher[q].key = k /\ OwnsOutbox(q)'
      PROVE  OwnsOutbox(q)
  <2>1. outbox'[k].gen = outbox[k].gen + 1  BY <1>0, <1>1
  <2>2. publisher[q].gen <= outbox[k].gen /\ publisher[q].gen = outbox[k].gen + 1
    BY <1>5, <1>6, <2>1 DEF OwnsOutbox
  <2>3. publisher[q].gen \in Nat /\ outbox[k].gen \in Nat  BY <1>0 DEF IInv, TypeOK, OutboxRow
  <2> QED  BY <2>2, <2>3
<1>7. /\ o.state = "claimed" /\ o.gen >= outbox[k].gen  BY <1>0 DEF OutboxRow
<1> HIDE DEF o
<1> QED  BY <1>1, <1>2, <1>3, <1>4, <1>6, <1>7, OutboxFrame

\* Steps on a row that no publisher's claim survives or that leave the claim be.
LEMMA ExhaustOutboxStep ==
  ASSUME IInv, NEW p \in Publishers, NEW k \in Keys, ExhaustOutbox(p, k)
  PROVE  IInv'
<1> DEFINE o == [state |-> "exhausted", attempts |-> outbox[k].attempts,
                 gen |-> outbox[k].gen, live |-> FALSE]
<1>0. outbox[k] \in OutboxRow /\ outbox \in [Keys -> OutboxRow]
  BY DEF IInv, TypeOK
<1>1. outbox' = [outbox EXCEPT ![k] = o] /\ outbox[k].state \in Unpublished
  BY <1>0 DEF ExhaustOutbox, Unpublished, Waiting, Claimable
<1>2. /\ o \in OutboxRow /\ o.state = "exhausted" /\ o.gen = outbox[k].gen
      /\ o.attempts = PublishMax /\ o.gen \in Nat
  <2>1. /\ outbox[k].attempts \in 0 .. PublishMax /\ outbox[k].gen \in Nat
        /\ ~(outbox[k].attempts < PublishMax)
    BY <1>0 DEF ExhaustOutbox, HasTries, OutboxRow
  <2>2. outbox[k].attempts = PublishMax  BY <2>1, AlertAssumption
  <2> QED  BY <2>1, <2>2 DEF OutboxRow, Unpublished
<1>3. /\ publisher' = [publisher EXCEPT ![p] = Off]
      /\ UNCHANGED <<schedule, delivery, messages, worker, received, revived>>
  BY DEF ExhaustOutbox
<1>4. publisher' \in [Publishers -> [pc: {"off", "loop", "enqueue", "published", "failed"},
                                    key: Keys \cup {None}, gen: Nat]]
  BY <1>3 DEF IInv, TypeOK, Off
<1>5. \A q \in Publishers : publisher'[q] # publisher[q] => Publishes(q)'
  BY <1>3 DEF IInv, TypeOK, Publishes, Busy, Off
<1>6. outbox'[k].state = "exhausted"  BY <1>0, <1>1, <1>2
<1> HIDE DEF o
<1>7. \A q \in Publishers : publisher'[q] = publisher[q] /\ publisher[q].key = k => ~OwnsOutbox(q)'
  BY <1>6 DEF OwnsOutbox
<1>8. o.gen >= outbox[k].gen  BY <1>2
<1> QED  BY <1>1, <1>2, <1>3, <1>4, <1>5, <1>7, <1>8, OutboxFrame

LEMMA ReplayOutboxStep ==
  ASSUME IInv, NEW k \in Keys, ReplayOutbox(k) \/ PublisherLeaseExpires(k)
  PROVE  IInv'
<1>0. outbox[k] \in OutboxRow /\ outbox \in [Keys -> OutboxRow]
  BY DEF IInv, TypeOK
<1>1. /\ publisher' = publisher
      /\ UNCHANGED <<schedule, delivery, messages, worker, received, revived>>
  BY DEF ReplayOutbox, PublisherLeaseExpires, processes
<1>2. publisher' \in [Publishers -> [pc: {"off", "loop", "enqueue", "published", "failed"},
                                    key: Keys \cup {None}, gen: Nat]]
  BY <1>1 DEF IInv, TypeOK
<1>3. CASE ReplayOutbox(k)
  <2> DEFINE o == [state |-> "pending", attempts |-> 0,
                   gen |-> outbox[k].gen, live |-> FALSE]
  <2>1. outbox' = [outbox EXCEPT ![k] = o] /\ outbox[k].state \in Unpublished
    BY <1>0, <1>3 DEF ReplayOutbox, Unpublished, Waiting
  <2>2. /\ o \in OutboxRow /\ o.state = "pending" /\ o.gen = outbox[k].gen /\ o.attempts = 0
        /\ o.gen \in Nat
    BY <1>0, AlertAssumption DEF OutboxRow, Unpublished, Waiting
  <2>3. outbox'[k].state = "pending"  BY <1>0, <2>1, <2>2
  <2> HIDE DEF o
  <2>4. \A q \in Publishers : publisher[q].key = k => ~OwnsOutbox(q)'
    BY <1>1, <2>3 DEF OwnsOutbox
  <2>5. o.gen >= outbox[k].gen /\ o.attempts < PublishMax  BY <2>2, AlertAssumption
  <2> QED  BY <1>1, <1>2, <2>1, <2>2, <2>4, <2>5, OutboxFrame DEF Waiting
<1>4. CASE PublisherLeaseExpires(k)
  <2>1. /\ TypeOK' /\ \A j \in Keys : /\ outbox'[j].state = outbox[j].state
                                      /\ outbox'[j].attempts = outbox[j].attempts
                                     /\ outbox'[j].gen = outbox[j].gen
    BY <1>0, <1>1, <1>4 DEF IInv, TypeOK, PublisherLeaseExpires, OutboxRow
  <2>2. SupersededIsQuiet' /\ WorkerSide'
    BY <1>1, <2>1, QuietFrame, WorkerFrame
  <2>3. PairInv' /\ WorkIsCarried'
    BY <1>1, <2>1 DEF IInv, PublisherSide, PairInv, WorkIsCarried
  <2>4. PublisherInv'
    <3> SUFFICES ASSUME NEW p \in Publishers, Busy(p)' PROVE Publishes(p)'
      BY DEF PublisherInv, Publishes
    <3>1. Publishes(p) /\ Busy(p)  BY <1>1 DEF IInv, PublisherSide, PublisherInv, Busy
    <3>2. PICK j \in Keys : j = publisher[p].key  BY <3>1 DEF Publishes
    <3> QED  BY <1>1, <2>1, <3>1, <3>2 DEF Publishes, OwnsOutbox
  <2> QED  BY <2>1, <2>2, <2>3, <2>4 DEF IInv, PublisherSide
<1> QED  BY <1>3, <1>4

LEMMA EnqueueStep ==
  ASSUME IInv, NEW p \in Publishers, Enqueue(p)
  PROVE  IInv'
<1> DEFINE key == publisher[p].key
<1>0. /\ publisher[p].pc = "enqueue" /\ Busy(p) /\ Publishes(p) /\ key \in Keys
      /\ UNCHANGED <<schedule, delivery, outbox, worker, received, revived>>
  BY DEF IInv, PublisherSide, PublisherInv, Publishes, Busy, Enqueue, rows
<1>1. PICK pc \in {"published", "failed"} :
        /\ publisher' = [publisher EXCEPT ![p].pc = pc]
        /\ messages' = messages \/ messages' = [messages EXCEPT ![key] = @ + 1]
        /\ pc = "published" => messages' = [messages EXCEPT ![key] = @ + 1]
  BY DEF Enqueue
<1>2. /\ messages' \in [Keys -> Nat] /\ \A k \in Keys : messages[k] > 0 => messages'[k] > 0
      /\ pc = "published" => messages'[key] > 0
  <2>1. messages \in [Keys -> Nat]  BY DEF IInv, TypeOK
  <2> QED  BY <1>0, <1>1, <2>1
<1>3. /\ \A q \in Publishers : q # p => publisher'[q] = publisher[q]
      /\ publisher'[p].pc = pc /\ publisher'[p].key = key /\ publisher'[p].gen = publisher[p].gen
      /\ publisher' \in [Publishers -> [pc: {"off", "loop", "enqueue", "published", "failed"},
                                        key: Keys \cup {None}, gen: Nat]]
  BY <1>1 DEF IInv, TypeOK
<1>4. TypeOK'
  BY <1>0, <1>2, <1>3 DEF IInv, TypeOK
<1>5. SupersededIsQuiet' /\ WorkerSide'
  BY <1>0, QuietFrame, WorkerFrame
<1>6. PairInv' /\ WorkIsCarried'
  BY <1>0, <1>2 DEF IInv, PublisherSide, PairInv, WorkIsCarried
<1>7. PublisherInv'
  <2> SUFFICES ASSUME NEW q \in Publishers, Busy(q)' PROVE Publishes(q)'
    BY DEF PublisherInv, Publishes
  <2>1. CASE q = p
    BY <1>0, <1>2, <1>3, <2>1 DEF Publishes, OwnsOutbox
  <2>2. CASE q # p
    <3>1. Publishes(q) /\ Busy(q) /\ publisher'[q] = publisher[q]
      BY <1>3, <2>2 DEF IInv, PublisherSide, PublisherInv, Busy
    <3> QED  BY <1>0, <1>2, <3>1 DEF Publishes, OwnsOutbox
  <2> QED  BY <2>1, <2>2
<1> QED  BY <1>4, <1>5, <1>6, <1>7 DEF IInv, PublisherSide

\* A publisher settles the row it owns.
LEMMA OutcomeFrame ==
  ASSUME IInv, UNCHANGED <<schedule, delivery, messages, worker, received, revived>>,
         NEW p \in Publishers, NEW k \in Keys, NEW o \in OutboxRow,
         outbox' = [outbox EXCEPT ![k] = o],
         publisher' = [publisher EXCEPT ![p] = [Off EXCEPT !.pc = "loop"]],
         outbox[k].state = "claimed", o.state \in {"published", "failed", "exhausted"},
         o.state # "published" => o.gen >= outbox[k].gen,
         o.state = "failed" => o.attempts < PublishMax,
         o.state = "exhausted" => o.attempts = PublishMax,
         o.state = "published" /\ delivery[k].status = "pending" => messages[k] > 0
  PROVE  IInv'
<1>1. [Off EXCEPT !.pc = "loop"] = [pc |-> "loop", key |-> None, gen |-> 0]
  BY DEF Off
<1>2. publisher' = [publisher EXCEPT ![p] = [pc |-> "loop", key |-> None, gen |-> 0]]
  BY <1>1
<1>3. publisher' \in [Publishers -> [pc: {"off", "loop", "enqueue", "published", "failed"},
                                    key: Keys \cup {None}, gen: Nat]]
  <2>1. [pc |-> "loop", key |-> None, gen |-> 0]
          \in [pc: {"off", "loop", "enqueue", "published", "failed"}, key: Keys \cup {None}, gen: Nat]
    OBVIOUS
  <2> QED  BY <1>2, <2>1 DEF IInv, TypeOK
<1>4. \A q \in Publishers : publisher'[q] # publisher[q] => Publishes(q)'
  BY <1>2 DEF IInv, TypeOK, Publishes, Busy
<1>5. outbox'[k] = o  BY DEF IInv, TypeOK
<1>6. \A q \in Publishers : publisher'[q] = publisher[q] /\ publisher[q].key = k => ~OwnsOutbox(q)'
  BY <1>5 DEF OwnsOutbox
<1>7. /\ outbox[k].state \in Unpublished /\ o.state \notin {"absent", "cancelled"}
      /\ o.state \in Unpublished => o.gen >= outbox[k].gen
      /\ delivery[k].status = "pending" =>
            \/ o.state \in Waiting /\ o.attempts < PublishMax
            \/ o.state = "claimed"
            \/ o.state = "exhausted" /\ o.attempts = PublishMax
            \/ o.state = "published" /\ messages[k] > 0
  BY DEF Unpublished, Waiting
<1> QED  BY <1>3, <1>4, <1>6, <1>7, OutboxFrame

LEMMA MarkOutboxStep ==
  ASSUME IInv, NEW p \in Publishers, MarkOutbox(p)
  PROVE  IInv'
<1> DEFINE k == publisher[p].key
           o == Outcome(outbox[k], publisher[p].pc)
<1>0. /\ publisher[p].pc \in {"published", "failed"} /\ Busy(p) /\ Publishes(p) /\ k \in Keys
      /\ UNCHANGED <<schedule, delivery, messages, worker, received, revived>>
      /\ publisher' = [publisher EXCEPT ![p] = [Off EXCEPT !.pc = "loop"]]
      /\ outbox[k] \in OutboxRow /\ outbox \in [Keys -> OutboxRow]
  <2>1. /\ publisher[p].pc \in {"published", "failed"}
        /\ UNCHANGED <<schedule, delivery, messages, worker, received, revived>>
        /\ publisher' = [publisher EXCEPT ![p] = [Off EXCEPT !.pc = "loop"]]
    BY DEF MarkOutbox
  <2>2. Busy(p) /\ Publishes(p) /\ k \in Keys
    BY <2>1 DEF IInv, PublisherSide, PublisherInv, Publishes, Busy
  <2>3. outbox[k] \in OutboxRow /\ outbox \in [Keys -> OutboxRow]
    BY <2>2 DEF IInv, TypeOK
  <2> QED  BY <2>1, <2>2, <2>3
<1>1. CASE ~OwnsOutbox(p)
  <2>1. outbox' = outbox  BY <1>1 DEF MarkOutbox
  <2> QED  BY <1>0, <2>1, PublisherMoves DEF rows
<1>2. CASE OwnsOutbox(p)
  <2>1. outbox' = [outbox EXCEPT ![k] = o] /\ outbox[k].state = "claimed"
    BY <1>0, <1>2 DEF MarkOutbox, OwnsOutbox
  <2>2. /\ outbox[k].attempts \in 0 .. PublishMax /\ outbox[k].gen \in Nat
        /\ 0 \in 0 .. PublishMax
    BY <1>0, AlertAssumption DEF OutboxRow
  <2>3. CASE publisher[p].pc = "published"
    <3>1. o = [state |-> "published", attempts |-> 0, gen |-> 0, live |-> FALSE]
      BY <2>3 DEF Outcome, NoOutbox
    <3>2. delivery[k].status = "pending" => messages[k] > 0
      BY <1>0, <1>2, <2>3 DEF Publishes
    <3>3. o \in OutboxRow /\ o.state = "published" /\ o.state \notin Unpublished
      BY <2>2, <3>1 DEF OutboxRow, Unpublished, Waiting
    <3> QED  BY <1>0, <2>1, <3>2, <3>3, OutcomeFrame
  <2>4. CASE publisher[p].pc = "failed"
    <3>1. CASE outbox[k].attempts >= PublishMax
      <4>1. o = [state |-> "exhausted", attempts |-> outbox[k].attempts, gen |-> outbox[k].gen,
                 live |-> FALSE]
        BY <2>4, <3>1 DEF Outcome
      <4>2. o \in OutboxRow /\ o.state = "exhausted" /\ o.attempts = PublishMax
        BY <2>2, <3>1, <4>1, AlertAssumption DEF OutboxRow, Unpublished
      <4>3. o.gen >= outbox[k].gen  BY <2>2, <4>1
      <4> QED  BY <1>0, <2>1, <4>2, <4>3, OutcomeFrame
    <3>2. CASE ~(outbox[k].attempts >= PublishMax)
      <4>1. o = [state |-> "failed", attempts |-> outbox[k].attempts, gen |-> outbox[k].gen,
                 live |-> FALSE]
        BY <2>4, <3>2 DEF Outcome
      <4>2. o \in OutboxRow /\ o.state = "failed" /\ o.attempts < PublishMax
        BY <2>2, <3>2, <4>1, AlertAssumption DEF OutboxRow, Unpublished, Waiting
      <4>3. o.gen >= outbox[k].gen  BY <2>2, <4>1
      <4> QED  BY <1>0, <2>1, <4>2, <4>3, OutcomeFrame
    <3> QED  BY <3>1, <3>2
  <2> QED  BY <1>0, <2>3, <2>4
<1> QED  BY <1>1, <1>2

----------------------------------------------------------------------------
(* The workers.                                                            *)

\* Rows are released or kept, and workers end.
LEMMA RowStep ==
  ASSUME IInv, UNCHANGED <<schedule, outbox, publisher, received>>,
         delivery' \in [Keys -> DeliveryRow], messages' \in [Keys -> Nat],
         revived' \subseteq Keys, revived \subseteq revived',
         \A w \in Workers : worker'[w] = worker[w] \/ worker'[w] = Idle,
         worker' = worker \/ \E w \in Workers : worker' = [worker EXCEPT ![w] = Idle],
         \A k \in Keys :
           /\ Kept(k) \/ (Released(k) /\ delivery'[k].status # "pending")
           /\ delivery'[k].status = "absent" <=> delivery[k].status = "absent"
           /\ delivery'[k].status = "pending" => (messages[k] > 0 => messages'[k] > 0)
           /\ delivery'[k].status = "dead_letter" => delivery'[k].attempts >= MaxAttempts
           /\ delivery'[k].status \in Open =>
                delivery[k].status \in Open \/ k \in revived' \/ ~Superseded(k)
  PROVE  IInv'
<1>1. TypeOK'
  <2>1. Idle \in [pc: {"idle", "claimed", "post", "delivered", "failed"},
                  key: Keys \cup {None}, token: Nat, own: BOOLEAN]
    BY DEF Idle
  <2> QED  BY <2>1 DEF IInv, TypeOK
<1>2. SupersededIsQuiet'  BY QuietFrame
<1>3. WorkerSide'  BY ReleaseFrame
<1>4. PublisherSide'  BY PublisherFrame DEF Kept
<1> QED  BY <1>1, <1>2, <1>3, <1>4 DEF IInv

LEMMA ClaimStep ==
  ASSUME IInv, NEW w \in Workers, NEW k \in Keys, Claim(w, k)
  PROVE  IInv'
<1> DEFINE n == delivery[k].attempts
<1>0. /\ n \in Nat /\ delivery[k].status \in Open /\ worker[w] = Idle /\ messages[k] > 0
      /\ UNCHANGED <<schedule, outbox, publisher, received, revived>>
  BY DEF IInv, TypeOK, DeliveryRow, Claim
<1>1. /\ delivery' = [delivery EXCEPT ![k] = [status |-> "in_flight", attempts |-> n + 1,
                                              token |-> n + 1, live |-> TRUE]]
      /\ worker' = [worker EXCEPT ![w] = [pc |-> "claimed", key |-> k, token |-> n + 1,
                                          own |-> FALSE]]
      /\ messages' = [messages EXCEPT ![k] = @ - 1]
  BY DEF Claim, IInv, TypeOK
<1>2. /\ delivery'[k] = [status |-> "in_flight", attempts |-> n + 1, token |-> n + 1, live |-> TRUE]
      /\ \A j \in Keys : j # k => delivery'[j] = delivery[j] /\ messages'[j] = messages[j]
      /\ worker'[w] = [pc |-> "claimed", key |-> k, token |-> n + 1, own |-> FALSE]
      /\ \A v \in Workers : v # w => worker'[v] = worker[v]
  BY <1>1 DEF IInv, TypeOK
<1>3. TypeOK'
  <2>1. [status |-> "in_flight", attempts |-> n + 1, token |-> n + 1, live |-> TRUE] \in DeliveryRow
    BY <1>0 DEF DeliveryRow, Open
  <2>2. delivery' \in [Keys -> DeliveryRow]  BY <1>1, <2>1 DEF IInv, TypeOK
  <2>3. messages' \in [Keys -> Nat]  BY <1>0, <1>1 DEF IInv, TypeOK
  <2> QED  BY <1>0, <1>1, <2>2, <2>3 DEF IInv, TypeOK
<1>4. SupersededIsQuiet'  BY <1>0, <1>2, QuietFrame
<1>5. PublisherSide'
  <2>1. \A j \in Keys :
           /\ delivery'[j].status = "absent" <=> delivery[j].status = "absent"
           /\ delivery'[j].status = "pending" =>
                delivery[j].status = "pending" /\ (messages[j] > 0 => messages'[j] > 0)
           /\ delivery'[j].status = "dead_letter" => delivery'[j].attempts >= MaxAttempts
    BY <1>0, <1>2 DEF IInv, PublisherSide, WorkIsCarried, Open
  <2> QED  BY <1>0, <2>1, PublisherFrame
<1>6. ASSUME NEW v \in Workers, worker[v] # Idle, worker[v].key = k
      PROVE  worker[v].token \in Nat /\ worker[v].token <= n
  BY <1>0, <1>6 DEF IInv, TypeOK, WorkerSide, HolderInv, Holds, Alive
<1>7. LeaseInv' /\ DeliveredIsReceived'
  BY <1>0, <1>2 DEF IInv, WorkerSide, LeaseInv, DeliveredIsReceived
<1>8. HolderInv'
  <2> SUFFICES ASSUME NEW v \in Workers, worker'[v] # Idle PROVE Holds(v)'
    BY DEF HolderInv, Holds
  <2>1. CASE v = w
    BY <1>0, <1>2, <2>1 DEF Holds
  <2>2. CASE v # w
    <3>1. worker'[v] = worker[v] /\ Holds(v)  BY <1>2, <2>2 DEF IInv, WorkerSide, HolderInv
    <3>2. CASE worker[v].key = k
      BY <1>0, <1>2, <1>6, <3>1, <3>2 DEF Holds
    <3>3. CASE worker[v].key # k
      BY <1>0, <1>2, <3>1, <3>3 DEF Holds
    <3> QED  BY <3>2, <3>3
  <2> QED  BY <2>1, <2>2
<1>9. UniqueInv'
  <2> SUFFICES ASSUME NEW u \in Workers, NEW v \in Workers, u # v, worker'[u] # Idle,
                      worker'[u].key = worker'[v].key
               PROVE  worker'[u].token # worker'[v].token
    BY DEF UniqueInv
  <2>1. CASE u # w /\ v # w
    BY <1>2, <2>1 DEF IInv, WorkerSide, UniqueInv
  <2>2. CASE v = w
    <3>1. worker[u].token <= n /\ worker[u].token \in Nat  BY <1>2, <1>6, <2>2
    <3> QED  BY <1>0, <1>2, <2>2, <3>1
  <2>3. CASE u = w
    <3>1. worker[v].key = k /\ worker[v] # Idle  BY <1>2, <2>3, NoneIsNoKey DEF Idle
    <3>2. worker[v].token <= n /\ worker[v].token \in Nat  BY <1>6, <3>1
    <3> QED  BY <1>0, <1>2, <2>3, <3>2
  <2> QED  BY <2>1, <2>2, <2>3
<1>10. PostInv'
  <2> SUFFICES ASSUME NEW v \in Workers, worker'[v] # Idle, ValidLease(v)', worker'[v].key \notin revived
               PROVE  Posts(v)'
    BY <1>0 DEF PostInv, Posts
  <2>1. CASE v = w  BY <1>2, <2>1 DEF Posts
  <2>2. CASE v # w
    <3>1. worker'[v] = worker[v] /\ Holds(v) /\ Posts(v)
      BY <1>2, <2>2 DEF IInv, WorkerSide, HolderInv, PostInv
    <3>2. worker[v].key # k
      BY <1>0, <1>2, <1>6, <3>1 DEF ValidLease
    <3>3. ValidLease(v)  BY <1>2, <3>1, <3>2 DEF ValidLease, Holds
    <3> QED  BY <1>0, <3>1, <3>3 DEF Posts
  <2> QED  BY <2>1, <2>2
<1> QED  BY <1>3, <1>4, <1>5, <1>7, <1>8, <1>9, <1>10 DEF IInv, WorkerSide

\* A message that finds its delivery taken is spent; an open one is not taken.
LEMMA ClaimRefusedStep ==
  ASSUME IInv, NEW k \in Keys, ClaimRefused(k)
  PROVE  IInv'
<1>1. /\ UNCHANGED <<schedule, delivery, outbox, publisher, worker, received, revived>>
      /\ messages[k] > 0 /\ messages' = [messages EXCEPT ![k] = @ - 1]
      /\ delivery[k].status \notin {"pending", "in_flight"} \/ delivery[k].live
  BY DEF ClaimRefused, rows
<1>2. messages' \in [Keys -> Nat] /\ \A j \in Keys : j # k => messages'[j] = messages[j]
  BY <1>1 DEF IInv, TypeOK
<1>3. delivery[k].status # "pending"
  BY <1>1 DEF IInv, WorkerSide, LeaseInv
<1>4. \A j \in Keys :
           /\ Kept(j) \/ (Released(j) /\ delivery'[j].status # "pending")
           /\ delivery'[j].status = "absent" <=> delivery[j].status = "absent"
           /\ delivery'[j].status = "pending" => (messages[j] > 0 => messages'[j] > 0)
           /\ delivery'[j].status = "dead_letter" => delivery'[j].attempts >= MaxAttempts
           /\ delivery'[j].status \in Open =>
                delivery[j].status \in Open \/ j \in revived' \/ ~Superseded(j)
  <2>1. \A j \in Keys : delivery[j].status = "dead_letter" => delivery[j].attempts >= MaxAttempts
    BY DEF IInv, PublisherSide, WorkIsCarried
  <2> QED  BY <1>1, <1>2, <1>3, <2>1 DEF Kept
<1>5. delivery' \in [Keys -> DeliveryRow] /\ revived \subseteq Keys
  BY <1>1 DEF IInv, TypeOK
<1> QED  BY <1>1, <1>2, <1>4, <1>5, RowStep

\* A worker at work takes its next step.
LEMMA WorkerMoves ==
  ASSUME IInv, NEW w \in Workers, worker[w] # Idle,
         NEW r \in [pc: {"claimed", "post", "delivered", "failed"},
                    key: Keys \cup {None}, token: Nat, own: BOOLEAN],
         worker' = [worker EXCEPT ![w] = r], r.key = worker[w].key, r.token = worker[w].token,
         UNCHANGED <<schedule, delivery, outbox, publisher, messages, revived>>,
         received \subseteq received', received' \subseteq Keys,
         ValidLease(w) /\ r.key \notin revived =>
           /\ r.pc = "post" => r.own
           /\ r.pc = "delivered" => r.key \in received'
  PROVE  IInv'
<1>1. TypeOK'  BY DEF IInv, TypeOK
<1>2. SupersededIsQuiet'  BY QuietFrame
<1>3. PublisherSide'  BY PublisherFrame DEF IInv, PublisherSide, WorkIsCarried
<1>4. worker'[w] = r /\ \A v \in Workers : v # w => worker'[v] = worker[v]
  BY DEF IInv, TypeOK
<1>5. LeaseInv' /\ DeliveredIsReceived'
  BY DEF IInv, WorkerSide, LeaseInv, DeliveredIsReceived
<1>6. HolderInv'
  BY <1>4 DEF IInv, WorkerSide, HolderInv, Holds
<1>7. UniqueInv'
  <2> SUFFICES ASSUME NEW u \in Workers, NEW v \in Workers, u # v, worker'[u] # Idle,
                      worker'[u].key = worker'[v].key
               PROVE  worker'[u].token # worker'[v].token
    BY DEF UniqueInv
  <2>1. /\ worker[u] # Idle
        /\ worker'[u].key = worker[u].key /\ worker'[u].token = worker[u].token
        /\ worker'[v].key = worker[v].key /\ worker'[v].token = worker[v].token
    BY <1>4
  <2> QED  BY <2>1 DEF IInv, WorkerSide, UniqueInv
<1>8. PostInv'
  <2> SUFFICES ASSUME NEW v \in Workers, worker'[v] # Idle, ValidLease(v)', worker'[v].key \notin revived
               PROVE  Posts(v)'
    BY DEF PostInv, Posts
  <2>1. ValidLease(v)  BY <1>4 DEF ValidLease
  <2>2. CASE v = w  BY <1>4, <2>1, <2>2 DEF Posts
  <2>3. CASE v # w
    BY <1>4, <2>1, <2>3 DEF IInv, WorkerSide, PostInv, Posts
  <2> QED  BY <2>2, <2>3
<1> QED  BY <1>1, <1>2, <1>3, <1>5, <1>6, <1>7, <1>8 DEF IInv, WorkerSide

\* Workers end, and rows stay.
LEMMA WorkerEnds ==
  ASSUME IInv, NEW w \in Workers, worker' = [worker EXCEPT ![w] = Idle],
         UNCHANGED <<schedule, delivery, outbox, publisher, received, revived>>,
         messages' \in [Keys -> Nat], \A k \in Keys : messages[k] > 0 => messages'[k] > 0
  PROVE  IInv'
<1>1. \A v \in Workers : worker'[v] = worker[v] \/ worker'[v] = Idle
  BY DEF IInv, TypeOK
<1>2. \A k \in Keys :
           /\ Kept(k) \/ (Released(k) /\ delivery'[k].status # "pending")
           /\ delivery'[k].status = "absent" <=> delivery[k].status = "absent"
           /\ delivery'[k].status = "pending" => (messages[k] > 0 => messages'[k] > 0)
           /\ delivery'[k].status = "dead_letter" => delivery'[k].attempts >= MaxAttempts
           /\ delivery'[k].status \in Open =>
                delivery[k].status \in Open \/ k \in revived' \/ ~Superseded(k)
  <2>1. \A k \in Keys : delivery[k].status = "dead_letter" => delivery[k].attempts >= MaxAttempts
    BY DEF IInv, PublisherSide, WorkIsCarried
  <2> QED  BY <2>1 DEF Kept
<1>3. delivery' \in [Keys -> DeliveryRow] /\ revived' \subseteq Keys
  BY DEF IInv, TypeOK
<1> QED  BY <1>1, <1>2, <1>3, RowStep

\* A row whose lease is valid is not superseded, so the alert read is its own.
LEMMA ReadStep ==
  ASSUME IInv, NEW w \in Workers, Read(w)
  PROVE  IInv'
<1>1. /\ worker[w].pc = "claimed" /\ worker[w] # Idle
      /\ UNCHANGED <<schedule, delivery, outbox, publisher, messages, received, revived>>
  BY DEF Read, Idle, rows
<1>2. worker[w].key \in Keys /\ worker[w].token \in Nat
  BY <1>1 DEF IInv, TypeOK, WorkerSide, HolderInv, Holds
<1>3. CASE ~schedule.exists
  <2>1. worker' = [worker EXCEPT ![w] = Idle]  BY <1>3 DEF Read
  <2>2. messages' \in [Keys -> Nat]  BY <1>1 DEF IInv, TypeOK
  <2> QED  BY <1>1, <2>1, <2>2, WorkerEnds
<1>4. CASE schedule.exists
  <2> DEFINE own == schedule.gen = worker[w].key[1]
             r == [pc |-> "post", key |-> worker[w].key, token |-> worker[w].token, own |-> own]
  <2>1. worker' = [worker EXCEPT ![w] = r]
    BY <1>4 DEF Read, Moved, IInv, TypeOK
  <2>2. r \in [pc: {"claimed", "post", "delivered", "failed"},
               key: Keys \cup {None}, token: Nat, own: BOOLEAN]
    BY <1>2
  <2>3. ValidLease(w) /\ worker[w].key \notin revived => own
    BY <1>2 DEF IInv, SupersededIsQuiet, Superseded, ValidLease, Open
  <2>4. received' \subseteq Keys  BY <1>1 DEF IInv, TypeOK
  <2> QED  BY <1>1, <2>1, <2>2, <2>3, <2>4, WorkerMoves
<1> QED  BY <1>3, <1>4

LEMMA PostStep ==
  ASSUME IInv, NEW w \in Workers, Post(w)
  PROVE  IInv'
<1>1. /\ worker[w].pc = "post" /\ worker[w] # Idle
      /\ UNCHANGED <<schedule, delivery, outbox, publisher, messages, revived>>
  BY DEF Post, Idle, rows
<1>2. worker[w].key \in Keys /\ worker[w].token \in Nat /\ Posts(w)
  BY <1>1 DEF IInv, TypeOK, WorkerSide, HolderInv, Holds, PostInv
<1>3. PICK pc \in {"delivered", "failed"} :
        /\ worker' = Moved(w, pc, FALSE)
        /\ received \subseteq received' /\ received' \subseteq received \cup {worker[w].key}
        /\ pc = "delivered" /\ worker[w].own => worker[w].key \in received'
  BY DEF Post
<1> DEFINE r == [pc |-> pc, key |-> worker[w].key, token |-> worker[w].token, own |-> FALSE]
<1>4. worker' = [worker EXCEPT ![w] = r]
  BY <1>3 DEF Moved, IInv, TypeOK
<1>5. r \in [pc: {"claimed", "post", "delivered", "failed"},
             key: Keys \cup {None}, token: Nat, own: BOOLEAN]
  BY <1>2
<1>6. received' \subseteq Keys
  BY <1>2, <1>3 DEF IInv, TypeOK
<1>7. ValidLease(w) /\ r.key \notin revived =>
        (r.pc = "post" => r.own) /\ (r.pc = "delivered" => r.key \in received')
  BY <1>1, <1>2, <1>3 DEF Posts
<1>8. r.key = worker[w].key /\ r.token = worker[w].token
  OBVIOUS
<1> HIDE DEF r
<1> QED  BY <1>1, <1>3, <1>4, <1>5, <1>6, <1>7, <1>8, WorkerMoves

\* A row that is given up or put back for a retry.
LEMMA GiveUpFacts ==
  ASSUME IInv, NEW k \in Keys, delivery[k].status = "in_flight", delivery'[k] = GiveUpOrRetry(k),
         UNCHANGED schedule
  PROVE  /\ delivery'[k] \in DeliveryRow /\ Released(k)
         /\ delivery'[k].status \in {"dead_letter", "retry"}
         /\ delivery'[k].status = "dead_letter" => delivery'[k].attempts >= MaxAttempts
<1>1. /\ delivery'[k].status = IF Spent(k) THEN "dead_letter" ELSE "retry"
      /\ delivery'[k].attempts = delivery[k].attempts
      /\ delivery'[k].token = 0 /\ delivery'[k].live = FALSE
      /\ delivery[k].attempts \in Nat
  BY DEF GiveUpOrRetry, Unleased, IInv, TypeOK, DeliveryRow
<1>2. delivery'[k] \in DeliveryRow
  BY <1>1 DEF GiveUpOrRetry, Unleased, DeliveryRow, Open, TERMINAL
<1> QED  BY <1>1, <1>2 DEF Released, Alive, Open, Spent

LEMMA RecordStep ==
  ASSUME IInv, NEW w \in Workers, Record(w)
  PROVE  IInv'
<1> DEFINE k == worker[w].key
<1>1. /\ worker[w].pc \in {"delivered", "failed"} /\ worker[w] # Idle
      /\ worker' = [worker EXCEPT ![w] = Idle]
      /\ UNCHANGED <<schedule, outbox, publisher, messages, received, revived>>
  BY DEF Record, Idle
<1>2. k \in Keys /\ Posts(w) /\ messages' \in [Keys -> Nat] /\ revived' \subseteq Keys
  BY <1>1 DEF IInv, TypeOK, WorkerSide, HolderInv, Holds, PostInv
<1>3. CASE ~ValidLease(w)
  <2>1. delivery' = delivery  BY <1>3 DEF Record
  <2> QED  BY <1>1, <1>2, <2>1, WorkerEnds
<1>4. CASE ValidLease(w)
  <2>1. delivery[k].status = "in_flight"  BY <1>4 DEF ValidLease
  <2>2. PICK d : /\ delivery' = [delivery EXCEPT ![k] = d]
                 /\ \/ /\ worker[w].pc = "delivered"
                       /\ d = [NoDelivery EXCEPT !.status = "delivered"]
                    \/ d = GiveUpOrRetry(k)
    BY <1>1, <1>4 DEF Record
  <2>3. delivery'[k] = d /\ \A j \in Keys : j # k => delivery'[j] = delivery[j]
    BY <1>2, <2>2 DEF IInv, TypeOK
  <2>4. /\ d \in DeliveryRow /\ Released(k)
        /\ delivery'[k].status \in {"delivered", "dead_letter", "retry"}
        /\ delivery'[k].status = "dead_letter" => delivery'[k].attempts >= MaxAttempts
    <3>1. CASE worker[w].pc = "delivered" /\ d = [NoDelivery EXCEPT !.status = "delivered"]
      <4>1. d = [status |-> "delivered", attempts |-> 0, token |-> 0, live |-> FALSE]
        BY <3>1 DEF NoDelivery
      <4>2. k \in received' \cup revived'
        BY <1>1, <1>4, <3>1, <1>2 DEF Posts
      <4> QED  BY <2>3, <4>1, <4>2 DEF DeliveryRow, Released, Alive, Open, TERMINAL
    <3>2. CASE d = GiveUpOrRetry(k)
      BY <1>1, <1>2, <2>1, <2>3, <3>2, GiveUpFacts
    <3> QED  BY <2>2, <3>1, <3>2
  <2>5. \A j \in Keys :
           /\ Kept(j) \/ (Released(j) /\ delivery'[j].status # "pending")
           /\ delivery'[j].status = "absent" <=> delivery[j].status = "absent"
           /\ delivery'[j].status = "pending" => (messages[j] > 0 => messages'[j] > 0)
           /\ delivery'[j].status = "dead_letter" => delivery'[j].attempts >= MaxAttempts
           /\ delivery'[j].status \in Open =>
                delivery[j].status \in Open \/ j \in revived' \/ ~Superseded(j)
    <3>1. \A j \in Keys : delivery[j].status = "dead_letter" => delivery[j].attempts >= MaxAttempts
      BY DEF IInv, PublisherSide, WorkIsCarried
    <3>2. ASSUME NEW j \in Keys, j # k
          PROVE  /\ Kept(j) /\ delivery'[j] = delivery[j]
                 /\ delivery'[j].status = "dead_letter" => delivery'[j].attempts >= MaxAttempts
      BY <2>3, <3>1, <3>2 DEF Kept
    <3> QED  BY <1>1, <2>1, <2>4, <3>2 DEF Open
  <2>6. delivery' \in [Keys -> DeliveryRow]  BY <2>2, <2>4 DEF IInv, TypeOK
  <2>7. \A v \in Workers : worker'[v] = worker[v] \/ worker'[v] = Idle
    BY <1>1 DEF IInv, TypeOK
  <2> QED  BY <1>1, <1>2, <2>5, <2>6, <2>7, RowStep
<1> QED  BY <1>3, <1>4

LEMMA WorkerLostStep ==
  ASSUME IInv, NEW w \in Workers, WorkerLost(w)
  PROVE  IInv'
<1>1. /\ worker' = [worker EXCEPT ![w] = Idle]
      /\ messages' = [messages EXCEPT ![worker[w].key] = @ + 1]
      /\ UNCHANGED <<schedule, delivery, outbox, publisher, received, revived>>
  BY DEF WorkerLost, rows
<1>2. messages' \in [Keys -> Nat] /\ \A k \in Keys : messages[k] > 0 => messages'[k] > 0
  <2>1. messages \in [Keys -> Nat]  BY DEF IInv, TypeOK
  <2>2. worker[w].key \in Keys  BY DEF WorkerLost, IInv, WorkerSide, HolderInv, Holds
  <2> QED  BY <1>1, <2>1, <2>2
<1> QED  BY <1>1, <1>2, WorkerEnds

\* Rows change, and nothing else but the history.
LEMMA RowsChange ==
  ASSUME IInv, UNCHANGED <<schedule, outbox, publisher, messages, worker, received>>,
         delivery' \in [Keys -> DeliveryRow],
         revived' \subseteq Keys, revived \subseteq revived',
         \A k \in Keys :
           /\ Kept(k) \/ (Released(k) /\ delivery'[k].status # "pending")
           /\ delivery'[k].status = "absent" <=> delivery[k].status = "absent"
           /\ delivery'[k].status = "dead_letter" => delivery'[k].attempts >= MaxAttempts
           /\ delivery'[k].status \in Open =>
                delivery[k].status \in Open \/ k \in revived' \/ ~Superseded(k)
  PROVE  IInv'
<1>1. messages' \in [Keys -> Nat]  BY DEF IInv, TypeOK
<1>2. \A k \in Keys : delivery'[k].status = "pending" => (messages[k] > 0 => messages'[k] > 0)
  OBVIOUS
<1> QED  BY <1>1, <1>2, RowStep

\* Leases are lost, and nothing else.
LEMMA AllKept ==
  ASSUME IInv, UNCHANGED <<schedule, outbox, publisher, messages, worker, received, revived>>,
         delivery' \in [Keys -> DeliveryRow], \A k \in Keys : Kept(k)
  PROVE  IInv'
<1>1. \A k \in Keys : delivery[k].status = "dead_letter" => delivery[k].attempts >= MaxAttempts
  BY DEF IInv, PublisherSide, WorkIsCarried
<1>2. ASSUME NEW k \in Keys
      PROVE  /\ delivery'[k].status = delivery[k].status
             /\ delivery'[k].attempts = delivery[k].attempts
  BY DEF Kept
<1>3. revived' \subseteq Keys  BY DEF IInv, TypeOK
<1> QED  BY <1>1, <1>2, <1>3, RowsChange

LEMMA LeaseExpiresStep ==
  ASSUME IInv, NEW k \in Keys, LeaseExpires(k)
  PROVE  IInv'
<1>0. delivery[k] \in DeliveryRow /\ delivery \in [Keys -> DeliveryRow]
  BY DEF IInv, TypeOK
<1>1. UNCHANGED <<schedule, outbox, publisher, messages, worker, received, revived>>
  BY DEF LeaseExpires, processes
<1>2. delivery' \in [Keys -> DeliveryRow] /\ \A j \in Keys : Kept(j)
  BY <1>0 DEF LeaseExpires, DeliveryRow, Kept
<1> QED  BY <1>1, <1>2, AllKept

\* Every expired lease is given up or put back for a retry.
LEMMA ReapStep ==
  ASSUME IInv, Reap
  PROVE  IInv'
<1>1. /\ UNCHANGED <<schedule, outbox, publisher, messages, worker, received, revived>>
      /\ delivery' = [k \in Keys |-> IF k \in Expired THEN GiveUpOrRetry(k) ELSE delivery[k]]
  BY DEF Reap, processes
<1>2. \A k \in Keys : delivery[k].status = "dead_letter" => delivery[k].attempts >= MaxAttempts
  BY DEF IInv, PublisherSide, WorkIsCarried
<1>3. ASSUME NEW k \in Keys
      PROVE  /\ delivery'[k] \in DeliveryRow
             /\ Kept(k) \/ (Released(k) /\ delivery'[k].status # "pending")
             /\ delivery'[k].status = "absent" <=> delivery[k].status = "absent"
             /\ delivery'[k].status = "dead_letter" => delivery'[k].attempts >= MaxAttempts
             /\ delivery'[k].status \in Open => delivery[k].status \in Open
  <2>1. CASE k \in Expired
    <3>1. delivery[k].status = "in_flight" /\ delivery'[k] = GiveUpOrRetry(k)
      BY <1>1, <2>1 DEF Expired
    <3> QED  BY <1>1, <3>1, GiveUpFacts DEF Open
  <2>2. CASE k \notin Expired
    BY <1>1, <1>2, <2>2 DEF Kept, IInv, TypeOK
  <2> QED  BY <2>1, <2>2
<1>4. delivery' \in [Keys -> DeliveryRow]
  BY <1>1, <1>3
<1>5. revived' \subseteq Keys /\ revived \subseteq revived'
  BY <1>1 DEF IInv, TypeOK
<1> QED  BY <1>1, <1>3, <1>4, <1>5, RowsChange

\* An acknowledgement or a replay of one row.
LEMMA OperatorStep ==
  ASSUME IInv, NEW k \in Keys, Acknowledge(k) \/ Replay(k)
  PROVE  IInv'
<1>1. /\ UNCHANGED <<schedule, outbox, publisher, messages, worker, received>>
      /\ delivery[k] \in DeliveryRow
  BY DEF Acknowledge, Replay, processes, IInv, TypeOK
<1>2. \A j \in Keys : delivery[j].status = "dead_letter" => delivery[j].attempts >= MaxAttempts
  BY DEF IInv, PublisherSide, WorkIsCarried
<1>3. PICK s \in {"acknowledged", "retry"} :
        /\ delivery' = [delivery EXCEPT ![k] = Unleased(k, s)]
        /\ s = "acknowledged" => delivery[k].status = "delivered"
        /\ s = "retry" => delivery[k].status = "dead_letter" /\ Replay(k)
  BY DEF Acknowledge, Replay
<1>4. /\ delivery'[k] = Unleased(k, s) /\ delivery'[k] \in DeliveryRow /\ delivery'[k].status = s
      /\ delivery'[k].attempts = delivery[k].attempts
      /\ delivery'[k].token = 0 /\ ~delivery'[k].live
      /\ \A j \in Keys : j # k => delivery'[j] = delivery[j]
      /\ delivery' \in [Keys -> DeliveryRow]
  <2>1. delivery[k].attempts \in Nat  BY <1>1 DEF DeliveryRow
  <2>2. Unleased(k, s) \in DeliveryRow  BY <2>1 DEF Unleased, DeliveryRow, Open, TERMINAL
  <2>3. delivery'[k] = Unleased(k, s)  BY <1>3 DEF IInv, TypeOK
  <2>4. delivery' \in [Keys -> DeliveryRow] /\ \A j \in Keys : j # k => delivery'[j] = delivery[j]
    BY <1>3, <2>2 DEF IInv, TypeOK
  <2> QED  BY <2>2, <2>3, <2>4 DEF Unleased
<1>5. /\ revived' \subseteq Keys /\ revived \subseteq revived'
      /\ s = "retry" => k \in revived' \/ ~Superseded(k)
  <2>1. CASE Acknowledge(k)
    <3>1. delivery[k].status = "delivered" /\ revived' = revived  BY <2>1 DEF Acknowledge
    <3>2. s # "retry"  BY <1>3, <3>1
    <3> QED  BY <3>1, <3>2 DEF IInv, TypeOK
  <2>2. CASE Replay(k)
    <3>1. revived' = IF Superseded(k) THEN revived \cup {k} ELSE revived  BY <2>2 DEF Replay
    <3> QED  BY <3>1 DEF IInv, TypeOK
  <2> QED  BY <2>1, <2>2
<1>6. Released(k) /\ s # "pending"
  <2>1. delivery[k].status = "delivered" => k \in received \cup revived
    BY DEF IInv, WorkerSide, DeliveredIsReceived
  <2>2. s = "acknowledged" => delivery[k].status = "delivered"
    BY <1>3
  <2>3. s = "retry" => delivery[k].status = "dead_letter"
    BY <1>3
  <2> QED  BY <1>1, <1>4, <1>5, <2>1, <2>2, <2>3 DEF Released, Alive, Open
<1>7. ASSUME NEW j \in Keys
      PROVE  /\ Kept(j) \/ (Released(j) /\ delivery'[j].status # "pending")
             /\ delivery'[j].status = "absent" <=> delivery[j].status = "absent"
             /\ delivery'[j].status = "dead_letter" => delivery'[j].attempts >= MaxAttempts
             /\ delivery'[j].status \in Open =>
                  delivery[j].status \in Open \/ j \in revived' \/ ~Superseded(j)
  <2>1. CASE j = k
    BY <1>3, <1>4, <1>5, <1>6, <2>1 DEF Open
  <2>2. CASE j # k
    BY <1>2, <1>4, <2>2 DEF Kept
  <2> QED  BY <2>1, <2>2
<1> QED  BY <1>1, <1>4, <1>5, <1>7, RowsChange

----------------------------------------------------------------------------
(* The theorems.                                                           *)

LEMMA Inductive ==
  ASSUME IInv, [Next]_vars
  PROVE  IInv'
<1>1. CASE UNCHANGED vars
  BY <1>1 DEF vars, IInv, TypeOK, SupersededIsQuiet, Superseded, WorkerSide, LeaseInv, HolderInv, Holds,
     UniqueInv, PostInv, Posts, ValidLease, DeliveredIsReceived, PublisherSide, PairInv, PublisherInv,
     Publishes, Busy, OwnsOutbox, WorkIsCarried
<1>2. CASE Modify \/ CancelSchedule \/ RearmSchedule
  BY <1>2, ScheduleStep
<1>3. CASE DeleteSchedule  BY <1>3, DeleteStep
<1>4. CASE \E to \in SUBSET Recipients : Dispatch(to)  BY <1>4, DispatchStep
<1>5. CASE \E p \in Publishers : PublisherStarts(p) \/ PublisherStops(p) \/ PublisherLost(p)
  BY <1>5, PublisherMoves DEF PublisherStarts, PublisherStops, PublisherLost
<1>6. CASE \E p \in Publishers : Enqueue(p) \/ MarkOutbox(p)
  BY <1>6, EnqueueStep, MarkOutboxStep
<1>7. CASE \E p \in Publishers, k \in Keys : ClaimOutbox(p, k) \/ ExhaustOutbox(p, k)
  BY <1>7, ClaimOutboxStep, ExhaustOutboxStep
<1>8. CASE \E w \in Workers : Read(w) \/ Post(w) \/ Record(w) \/ WorkerLost(w)
  BY <1>8, ReadStep, PostStep, RecordStep, WorkerLostStep
<1>9. CASE \E w \in Workers, k \in Keys : Claim(w, k)  BY <1>9, ClaimStep
<1>10. CASE Reap  BY <1>10, ReapStep
<1>11. CASE \E k \in Keys : ReplayOutbox(k) \/ PublisherLeaseExpires(k)
  BY <1>11, ReplayOutboxStep
<1>12. CASE \E k \in Keys : ClaimRefused(k) \/ LeaseExpires(k) \/ Acknowledge(k) \/ Replay(k)
  BY <1>12, ClaimRefusedStep, LeaseExpiresStep, OperatorStep
<1> QED
  BY <1>1, <1>2, <1>3, <1>4, <1>5, <1>6, <1>7, <1>8, <1>9, <1>10, <1>11, <1>12 DEF Next

\* The two sides of every row stay consistent with the processes at work on it,
\* whatever is lost, taken over, fenced or replayed.
THEOREM Invariance == Spec => []IInv
<1>1. Init => IInv  BY InitInv
<1>2. IInv /\ [Next]_vars => IInv'  BY Inductive
<1> QED  BY <1>1, <1>2, PTL DEF Spec

\* Rows, processes and messages keep their shape (the models' fields).
THEOREM TypeCorrect == Spec => []TypeOK
<1>1. IInv => TypeOK  BY DEF IInv
<1> QED  BY <1>1, Invariance, PTL

\* A fence leaves nothing of an earlier generation to deliver or to hand over
\* (_fence_locked_schedule_child_work, dispatch_alert_schedule).
THEOREM SupersededQuiet == Spec => []SupersededIsQuiet
<1>1. IInv => SupersededIsQuiet  BY DEF IInv
<1> QED  BY <1>1, Invariance, PTL

\* A delivery is recorded only when its recipient got the alert of its own
\* generation (claim, deliver_scheduler_recipient, succeed).
THEOREM DeliveredReceived == Spec => []DeliveredIsReceived
<1>1. IInv => DeliveredIsReceived  BY DEF IInv, WorkerSide
<1> QED  BY <1>1, Invariance, PTL

\* An untried delivery is in the outbox, in the broker or exhausted for an
\* operator to see (claim_outbox, mark_outbox_published, mark_outbox_failed).
THEOREM WorkCarried == Spec => []WorkIsCarried
<1>1. IInv => WorkIsCarried  BY DEF IInv, PublisherSide
<1> QED  BY <1>1, Invariance, PTL

\* While a lease is live nobody but its worker records an outcome
\* (claim, _with_valid_lease, succeed, fail, reap_expired).
THEOREM LeaseExclusive == Spec => LeaseIsExclusive
<1> DEFINE A(w, k) ==
      /\ worker[w].key = k /\ worker[w].token = delivery[k].token /\ delivery[k].live
      /\ delivery'[k].status \notin {"in_flight", "cancelled", "absent"}
      => worker'[w] = Idle
<1>1. ASSUME IInv, Next, NEW w \in Workers, NEW k \in Keys,
             worker[w].key = k, worker[w].token = delivery[k].token, delivery[k].live,
             delivery'[k].status \notin {"in_flight", "cancelled", "absent"}
      PROVE  worker'[w] = Idle
  <2>1. /\ delivery[k].status = "in_flight" /\ worker[w] # Idle
        /\ delivery'[k].status # delivery[k].status
    BY <1>1, NoneIsNoKey DEF IInv, WorkerSide, LeaseInv, Idle
  <2>0. delivery \in [Keys -> DeliveryRow]  BY <1>1 DEF IInv, TypeOK
  <2>2. CASE Fence \/ DeleteSchedule
    <3>1. delivery'[k].status \in {"cancelled", "absent"}
      BY <2>1, <2>2 DEF Fence, Fenceable, DeleteSchedule, NoDelivery, Open
    <3> QED  BY <1>1, <3>1
  <2>3. CASE \E to \in SUBSET Recipients : Dispatch(to)
    BY <2>1, <2>3 DEF Dispatch, Created
  <2>4. CASE \E v \in Workers : Record(v)
    <3>1. PICK v \in Workers : Record(v)  BY <2>4
    <3>2. /\ worker[v] # Idle /\ worker' = [worker EXCEPT ![v] = Idle]
          /\ delivery' # delivery =>
               ValidLease(v) /\ \E d : delivery' = [delivery EXCEPT ![worker[v].key] = d]
      <4>1. worker[v] # Idle /\ worker' = [worker EXCEPT ![v] = Idle]
        BY <3>1 DEF Record, Idle
      <4>2. CASE ~ValidLease(v)
        BY <3>1, <4>1, <4>2 DEF Record
      <4>3. CASE ValidLease(v)
        <5>1. \E d : delivery' = [delivery EXCEPT ![worker[v].key] = d]
          BY <3>1, <4>3, Zenon DEF Record
        <5> QED  BY <4>1, <4>3, <5>1
      <4> QED  BY <4>2, <4>3
    <3>3. ValidLease(v) /\ worker[v].key = k
      BY <2>0, <2>1, <3>2
    <3>4. v = w
      BY <1>1, <2>1, <3>2, <3>3 DEF ValidLease, IInv, WorkerSide, UniqueInv
    <3> QED  BY <1>1, <3>2, <3>4 DEF IInv, TypeOK
  <2>5. CASE Reap
    BY <1>1, <2>1, <2>5 DEF Reap, Expired
  <2>6. CASE \E v \in Workers, j \in Keys : Claim(v, j)
    <3>1. PICK v \in Workers, j \in Keys : Claim(v, j)  BY <2>6
    <3>2. j # k  BY <1>1, <3>1 DEF Claim
    <3>3. \E d : delivery' = [delivery EXCEPT ![j] = d]  BY <3>1 DEF Claim
    <3> QED  BY <2>0, <2>1, <3>2, <3>3
  <2>7. CASE \E j \in Keys : Acknowledge(j) \/ Replay(j)
    <3>1. PICK j \in Keys : Acknowledge(j) \/ Replay(j)  BY <2>7
    <3>2. j # k  BY <2>1, <3>1 DEF Acknowledge, Replay
    <3>3. \E d : delivery' = [delivery EXCEPT ![j] = d]  BY <3>1 DEF Acknowledge, Replay
    <3> QED  BY <2>0, <2>1, <3>2, <3>3
  <2>8. CASE \E j \in Keys : LeaseExpires(j)
    <3>1. PICK j \in Keys : LeaseExpires(j)  BY <2>8
    <3>2. delivery[j] \in DeliveryRow /\ delivery \in [Keys -> DeliveryRow]  BY <2>0
    <3>3. delivery'[k].status = delivery[k].status
      BY <3>1, <3>2 DEF LeaseExpires, DeliveryRow
    <3> QED  BY <2>1, <3>3
  <2>9. delivery' # delivery  BY <2>1
  <2> QED
    BY <1>1, <2>2, <2>3, <2>4, <2>5, <2>6, <2>7, <2>8, <2>9 DEF Next, Modify, CancelSchedule,
       RearmSchedule, PublisherStarts, PublisherStops, Enqueue, MarkOutbox, PublisherLost,
       ClaimOutbox, ExhaustOutbox, Read, Post, WorkerLost, ReplayOutbox, PublisherLeaseExpires,
       ClaimRefused, rows, processes
<1>2. IInv /\ [Next]_vars => [\A w \in Workers, k \in Keys : A(w, k)]_vars
  BY <1>1
<1> QED  BY <1>2, Invariance, PTL DEF Spec, LeaseIsExclusive

=============================================================================
