---------------------------- MODULE AlertDelivery ----------------------------
(***************************************************************************)
(* One alert schedule of the GovStack scheduler: its generations, the      *)
(* admission of a generation's recipients, the publisher that hands        *)
(* outbox rows to the broker, and the workers that claim, post and record  *)
(* one recipient delivery, with fences, leases, retries and replays.       *)
(*                                                                         *)
(* Source: apps/appointments/services/{scheduler_runtime,                  *)
(*         govstack_alert_schedule}.py, scheduler_tasks.py, tasks.py.      *)
(*                                                                         *)
(* Schedules share no rows.  A transaction is one action; broker calls and *)
(* posts are actions of their own.  Of the alert a worker read, only       *)
(* whether it is the one of its row's own generation is kept.  Tokens are  *)
(* drawn afresh: the attempt or publisher generation names them.           *)
(* Time only enables: a lease may expire, a back-off may be over or not.   *)
(* Tasks without an argument of consequence (dispatch, publish, reap) may  *)
(* run at any time: they return to the broker when their process is lost,  *)
(* revoking one is best effort, and operators send them.                   *)
(* The counts of a row that is settled for good are read by nobody and     *)
(* dropped.                                                                *)
(***************************************************************************)
EXTENDS Naturals, FiniteSets

CONSTANTS
  Recipients,   \* who may be eligible when the alert is dispatched
  Workers,      \* processes running deliver_scheduler_recipient
  Publishers,   \* processes running publish_scheduler_outbox
  MaxAttempts,  \* SchedulerRecipientDelivery.max_attempts
  PublishMax,   \* GOVSTACK_SCHEDULER_PUBLISH_MAX_ATTEMPTS
  MaxGen,       \* bound on the schedule's generations
  MaxRows,      \* bound on the delivery rows
  MaxClaims,    \* bound on the claims of one row
  MaxCopies,    \* bound on the copies of one message
  None

ASSUME AlertAssumption ==
  /\ MaxAttempts \in Nat \ {0} /\ PublishMax \in Nat \ {0} /\ MaxGen \in Nat \ {0}
  /\ MaxRows \in Nat /\ MaxClaims \in Nat /\ MaxCopies \in Nat

Keys == (1 .. MaxGen) \X Recipients

ASSUME NoneIsNoKey == None \notin Keys

VARIABLES
  schedule,   \* the GovStackAlertSchedule row
  delivery,   \* SchedulerRecipientDelivery rows: <<generation, recipient>>
  outbox,     \* their SchedulerOutbox rows
  publisher,  \* publishers
  messages,   \* deliver_scheduler_recipient tasks in the broker, per row
  worker,     \* delivery workers; own: the alert read is that of the row's generation
  received,   \* rows whose own generation's alert arrived
  revived     \* rows replayed after their generation was over (history)

vars == <<schedule, delivery, outbox, publisher, messages, worker, received, revived>>

Open == {"pending", "in_flight", "retry"}
TERMINAL == {"delivered", "acknowledged", "cancelled", "dead_letter"}

\* "failed": LOCAL_FAILURE and UNKNOWN_HANDOFF, which differ in name only.
Waiting == {"pending", "failed"}
Unpublished == Waiting \cup {"claimed", "exhausted"}

DeliveryRow == [status: Open \cup TERMINAL \cup {"absent"}, attempts: Nat, token: Nat, live: BOOLEAN]
OutboxRow == [state: Unpublished \cup {"published", "cancelled", "absent"},
              attempts: 0 .. PublishMax, gen: Nat, live: BOOLEAN]

NoDelivery == [status |-> "absent", attempts |-> 0, token |-> 0, live |-> FALSE]
NoOutbox == [state |-> "absent", attempts |-> 0, gen |-> 0, live |-> FALSE]

Off == [pc |-> "off", key |-> None, gen |-> 0]
Idle == [pc |-> "idle", key |-> None, token |-> 0, own |-> FALSE]

\* alert_schedule_create.
Init ==
  /\ schedule = [exists |-> TRUE, gen |-> 1, admittable |-> TRUE]
  /\ delivery = [k \in Keys |-> NoDelivery]
  /\ outbox = [k \in Keys |-> NoOutbox]
  /\ publisher = [p \in Publishers |-> Off]
  /\ messages = [k \in Keys |-> 0]
  /\ worker = [w \in Workers |-> Idle]
  /\ received = {} /\ revived = {}

rows == <<delivery, outbox>>
processes == <<publisher, messages, worker, received>>

----------------------------------------------------------------------------
(* The schedule and its fence.                                             *)

\* (Mutant.)  Work a worker holds is left to it.
WaitingRows == {k \in Keys : delivery[k].status \in {"pending", "retry"}}

Fenceable == {k \in Keys : delivery[k].status \in Open}

\* _fence_locked_schedule_child_work, under the lock of the schedule.
Fence ==
  /\ delivery' = [k \in Keys |->
       IF k \in Fenceable THEN [NoDelivery EXCEPT !.status = "cancelled"] ELSE delivery[k]]
  /\ outbox' = [k \in Keys |->
       IF outbox[k].state \in Unpublished THEN [NoOutbox EXCEPT !.state = "cancelled"]
       ELSE outbox[k]]

NextGeneration ==
  /\ schedule.gen < MaxGen
  /\ schedule' = [schedule EXCEPT !.gen = @ + 1, !.admittable = TRUE]

\* alert_schedule_modify, with a new slot, category, message or date.
Modify ==
  /\ schedule.exists
  /\ Fence /\ NextGeneration
  /\ UNCHANGED <<processes, revived>>

CancelSchedule ==
  /\ schedule.exists
  /\ Fence
  /\ schedule' = [schedule EXCEPT !.admittable = FALSE]
  /\ UNCHANGED <<processes, revived>>

RearmSchedule ==
  /\ schedule.exists /\ ~schedule.admittable
  /\ Fence /\ NextGeneration
  /\ UNCHANGED <<processes, revived>>

\* The rows go with the schedule.
DeleteSchedule ==
  /\ schedule.exists
  /\ schedule' = [exists |-> FALSE, gen |-> 0, admittable |-> FALSE]
  /\ delivery' = [k \in Keys |-> NoDelivery]
  /\ outbox' = [k \in Keys |-> NoOutbox]
  /\ UNCHANGED <<processes, revived>>

----------------------------------------------------------------------------
(* Admission: dispatch_alert_schedule, one transaction under the lock.     *)

\* get_or_create: only new rows get an outbox row.
Created(to) == {k \in {<<schedule.gen, r>> : r \in to} : delivery[k].status = "absent"}

\* to: the recipients eligible at this moment.  The task takes the current
\* generation, whatever it was scheduled for.  The admission markers only word the
\* answer.
Dispatch(to) ==
  /\ schedule.exists /\ schedule.admittable
  /\ Cardinality(Created(to) \cup {k \in Keys : delivery[k].status # "absent"}) <= MaxRows
  /\ delivery' = [k \in Keys |-> IF k \in Created(to) THEN [NoDelivery EXCEPT !.status = "pending"]
                                 ELSE delivery[k]]
  /\ outbox' = [k \in Keys |-> IF k \in Created(to) THEN [NoOutbox EXCEPT !.state = "pending"]
                               ELSE outbox[k]]
  /\ UNCHANGED <<schedule, processes, revived>>

----------------------------------------------------------------------------
(* The publisher.                                                          *)

HasTries(k) == outbox[k].attempts < PublishMax

Claimable(k) ==
  \/ outbox[k].state \in Waiting
  \/ outbox[k].state = "claimed" /\ ~outbox[k].live

PublisherStarts(p) ==
  /\ publisher[p] = Off
  /\ publisher' = [publisher EXCEPT ![p] = [Off EXCEPT !.pc = "loop"]]
  /\ UNCHANGED <<schedule, rows, messages, worker, received, revived>>

\* claim_outbox.
ClaimOutbox(p, k) ==
  /\ publisher[p].pc = "loop" /\ Claimable(k)
  /\ HasTries(k) /\ outbox[k].gen < MaxClaims
  /\ outbox' = [outbox EXCEPT ![k] = [state |-> "claimed", attempts |-> @.attempts + 1,
                                      gen |-> @.gen + 1, live |-> TRUE]]
  /\ publisher' = [publisher EXCEPT ![p] = [pc |-> "enqueue", key |-> k, gen |-> outbox'[k].gen]]
  /\ UNCHANGED <<schedule, delivery, messages, worker, received, revived>>

\* A row without tries left is closed, and this publisher stops.
ExhaustOutbox(p, k) ==
  /\ publisher[p].pc = "loop" /\ Claimable(k)
  /\ ~HasTries(k)
  /\ outbox' = [outbox EXCEPT ![k] = [state |-> "exhausted", attempts |-> @.attempts,
                                      gen |-> @.gen, live |-> FALSE]]
  /\ publisher' = [publisher EXCEPT ![p] = Off]
  /\ UNCHANGED <<schedule, delivery, messages, worker, received, revived>>

\* Nothing is due; a row handed over in vain waits for its back-off.
PublisherStops(p) ==
  /\ publisher[p].pc = "loop"
  /\ \A k \in Keys : Claimable(k) => outbox[k].state = "failed"
  /\ publisher' = [publisher EXCEPT ![p] = Off]
  /\ UNCHANGED <<schedule, rows, messages, worker, received, revived>>

\* deliver_scheduler_recipient.delay: an error does not say whether the broker
\* has the message.
Enqueue(p) ==
  LET k    == publisher[p].key
      sent == [messages EXCEPT ![k] = @ + 1]
  IN  /\ publisher[p].pc = "enqueue" /\ messages[k] < MaxCopies
      /\ \/ messages' = sent /\ publisher' = [publisher EXCEPT ![p].pc = "published"]
         \/ /\ messages' \in {messages, sent}
            /\ publisher' = [publisher EXCEPT ![p].pc = "failed"]
      /\ UNCHANGED <<schedule, rows, worker, received, revived>>

\* The token and generation fence of mark_outbox_published and
\* mark_outbox_failed.
OwnsOutbox(p) ==
  LET o == outbox[publisher[p].key]
  IN  o.state = "claimed" /\ o.gen = publisher[p].gen

\* (Mutant.)  A failed hand-off falls through to the success.
TrustingOutcome(o, pc) == [NoOutbox EXCEPT !.state = "published"]

\* The row once its publisher knows how the hand-off went.
Outcome(o, pc) ==
  IF pc = "published" THEN [NoOutbox EXCEPT !.state = "published"]
  ELSE [state |-> IF o.attempts >= PublishMax THEN "exhausted" ELSE "failed",
        attempts |-> o.attempts, gen |-> o.gen, live |-> FALSE]

MarkOutbox(p) ==
  LET k == publisher[p].key
  IN  /\ publisher[p].pc \in {"published", "failed"}
      /\ outbox' = IF OwnsOutbox(p) THEN [outbox EXCEPT ![k] = Outcome(@, publisher[p].pc)]
                   ELSE outbox
      /\ publisher' = [publisher EXCEPT ![p] = [Off EXCEPT !.pc = "loop"]]
      /\ UNCHANGED <<schedule, delivery, messages, worker, received, revived>>

PublisherLost(p) ==
  /\ publisher[p] # Off
  /\ publisher' = [publisher EXCEPT ![p] = Off]
  /\ UNCHANGED <<schedule, rows, messages, worker, received, revived>>

ReplayOutbox(k) ==
  /\ outbox[k].state = "exhausted"
  /\ outbox' = [outbox EXCEPT ![k] = [state |-> "pending", attempts |-> 0,
                                      gen |-> @.gen, live |-> FALSE]]
  /\ UNCHANGED <<schedule, delivery, processes, revived>>

PublisherLeaseExpires(k) ==
  /\ outbox[k].live
  /\ outbox' = [outbox EXCEPT ![k].live = FALSE]
  /\ UNCHANGED <<schedule, delivery, processes, revived>>

----------------------------------------------------------------------------
(* deliver_scheduler_recipient.                                            *)

\* claim.
Claim(w, k) ==
  /\ worker[w] = Idle /\ messages[k] > 0
  /\ delivery[k].status \in Open /\ ~delivery[k].live /\ delivery[k].attempts < MaxClaims
  /\ delivery' = [delivery EXCEPT ![k] = [status |-> "in_flight", attempts |-> @.attempts + 1,
                                          token |-> @.attempts + 1, live |-> TRUE]]
  /\ worker' = [worker EXCEPT ![w] = [pc |-> "claimed", key |-> k,
                                      token |-> delivery'[k].token, own |-> FALSE]]
  /\ messages' = [messages EXCEPT ![k] = @ - 1]
  /\ UNCHANGED <<schedule, outbox, publisher, received, revived>>

\* Gone, final, leased, or a retry before its time: the message is spent.
ClaimRefused(k) ==
  /\ messages[k] > 0
  /\ delivery[k].status \notin {"pending", "in_flight"} \/ delivery[k].live
  /\ messages' = [messages EXCEPT ![k] = @ - 1]
  /\ UNCHANGED <<schedule, rows, publisher, worker, received, revived>>

Moved(w, pc, own) ==
  [worker EXCEPT ![w] = [pc |-> pc, key |-> @.key, token |-> @.token, own |-> own]]

\* The row and the alert of its schedule are read after the claim has
\* committed; a deleted row ends the task.
Read(w) ==
  /\ worker[w].pc = "claimed"
  /\ worker' = IF schedule.exists THEN Moved(w, "post", schedule.gen = worker[w].key[1])
               ELSE [worker EXCEPT ![w] = Idle]
  /\ UNCHANGED <<schedule, rows, publisher, messages, received, revived>>

\* A failed post may have arrived; an unsafe destination is not posted to.
Post(w) ==
  LET got == IF worker[w].own THEN received \cup {worker[w].key} ELSE received
  IN  /\ worker[w].pc = "post"
      /\ \/ received' = got /\ worker' = Moved(w, "delivered", FALSE)
         \/ received' \in {received, got} /\ worker' = Moved(w, "failed", FALSE)
      /\ UNCHANGED <<schedule, rows, publisher, messages, revived>>

\* (Mutant.)  The token is not compared.
InFlight(w) == delivery[worker[w].key].status = "in_flight"

\* (Mutant.)  A post that was made is recorded, whatever became of the row.
NotYetDelivered(w) == delivery[worker[w].key].status # "delivered"

\* _with_valid_lease.
ValidLease(w) ==
  LET d == delivery[worker[w].key]
  IN  d.status = "in_flight" /\ d.token = worker[w].token

Spent(k) == delivery[k].attempts >= MaxAttempts

\* The row without a lease.
Unleased(k, status) ==
  [status |-> status, attempts |-> delivery[k].attempts, token |-> 0, live |-> FALSE]

GiveUpOrRetry(k) == Unleased(k, IF Spent(k) THEN "dead_letter" ELSE "retry")

\* succeed and fail.
Record(w) ==
  LET k == worker[w].key
  IN  /\ worker[w].pc \in {"delivered", "failed"}
      /\ IF ~ValidLease(w) THEN UNCHANGED delivery
         ELSE IF worker[w].pc = "delivered"
         THEN delivery' = [delivery EXCEPT ![k] = [NoDelivery EXCEPT !.status = "delivered"]]
         ELSE delivery' = [delivery EXCEPT ![k] = GiveUpOrRetry(k)]
      /\ worker' = [worker EXCEPT ![w] = Idle]
      /\ UNCHANGED <<schedule, outbox, publisher, messages, received, revived>>

\* reject_on_worker_lost: the message returns to the broker.
WorkerLost(w) ==
  /\ worker[w] # Idle /\ messages[worker[w].key] < MaxCopies
  /\ messages' = [messages EXCEPT ![worker[w].key] = @ + 1]
  /\ worker' = [worker EXCEPT ![w] = Idle]
  /\ UNCHANGED <<schedule, rows, publisher, received, revived>>

LeaseExpires(k) ==
  /\ delivery[k].live
  /\ delivery' = [delivery EXCEPT ![k].live = FALSE]
  /\ UNCHANGED <<schedule, outbox, processes, revived>>

Expired == {k \in Keys : delivery[k].status = "in_flight" /\ ~delivery[k].live}

\* reap_expired: every expired lease in one transaction.
Reap ==
  /\ Expired # {}
  /\ delivery' = [k \in Keys |-> IF k \in Expired THEN GiveUpOrRetry(k) ELSE delivery[k]]
  /\ UNCHANGED <<schedule, outbox, processes, revived>>

Acknowledge(k) ==
  /\ delivery[k].status = "delivered"
  /\ delivery' = [delivery EXCEPT ![k] = Unleased(k, "acknowledged")]
  /\ UNCHANGED <<schedule, outbox, processes, revived>>

\* The generation of a dead letter is over.
Superseded(k) == k[1] # schedule.gen \/ ~schedule.admittable

\* replay asks nothing of the schedule.
Replay(k) ==
  /\ delivery[k].status = "dead_letter"
  /\ delivery' = [delivery EXCEPT ![k] = Unleased(k, "retry")]
  /\ revived' = IF Superseded(k) THEN revived \cup {k} ELSE revived
  /\ UNCHANGED <<schedule, outbox, processes>>

----------------------------------------------------------------------------
Next ==
  \/ Modify \/ CancelSchedule \/ RearmSchedule \/ DeleteSchedule
  \/ \E to \in SUBSET Recipients : Dispatch(to)
  \/ \E p \in Publishers :
       \/ PublisherStarts(p) \/ PublisherStops(p) \/ Enqueue(p) \/ MarkOutbox(p) \/ PublisherLost(p)
       \/ \E k \in Keys : ClaimOutbox(p, k) \/ ExhaustOutbox(p, k)
  \/ \E w \in Workers :
       \/ Read(w) \/ Post(w) \/ Record(w) \/ WorkerLost(w)
       \/ \E k \in Keys : Claim(w, k)
  \/ Reap
  \/ \E k \in Keys :
       \/ ReplayOutbox(k) \/ PublisherLeaseExpires(k) \/ ClaimRefused(k)
       \/ LeaseExpires(k) \/ Acknowledge(k) \/ Replay(k)

Spec == Init /\ [][Next]_vars

----------------------------------------------------------------------------
(* Properties.                                                             *)

TypeOK ==
  /\ schedule \in [exists: BOOLEAN, gen: 0 .. MaxGen, admittable: BOOLEAN]
  /\ delivery \in [Keys -> DeliveryRow] /\ outbox \in [Keys -> OutboxRow]
  /\ publisher \in [Publishers ->
       [pc: {"off", "loop", "enqueue", "published", "failed"},
        key: Keys \cup {None}, gen: Nat]]
  /\ messages \in [Keys -> Nat]
  /\ worker \in [Workers -> [pc: {"idle", "claimed", "post", "delivered", "failed"},
                             key: Keys \cup {None}, token: Nat, own: BOOLEAN]]
  /\ received \subseteq Keys
  /\ revived \subseteq Keys

\* Once an alert is modified, cancelled or deleted, nothing of its earlier
\* generations is left to deliver or to hand over, whoever was at work on it
\* (_fence_locked_schedule_child_work); dead letters an operator replays
\* afterwards are the exception.
SupersededIsQuiet ==
  \A k \in Keys : Superseded(k) =>
    /\ delivery[k].status \in Open => k \in revived
    /\ outbox[k].state \notin Unpublished

\* A delivery is recorded only when its recipient got the alert of the row's own
\* generation, although the alert is read and posted outside any transaction
\* and may be modified meanwhile (claim, succeed).
DeliveredIsReceived ==
  \A k \in Keys \ revived :
    delivery[k].status \in {"delivered", "acknowledged"} => k \in received

\* A delivery nobody has tried is carried: its outbox row has tries left, is
\* exhausted for an operator to see, or the broker has its message, in spite of
\* failed hand-offs, lost publishers and takeovers; and it is given up only when
\* its attempts are spent (claim_outbox, mark_outbox_failed, fail, reap_expired).
WorkIsCarried ==
  \A k \in Keys :
    /\ delivery[k].status = "pending" =>
         \/ outbox[k].state \in Waiting /\ outbox[k].attempts < PublishMax
         \/ outbox[k].state = "claimed"
         \/ outbox[k].state = "exhausted" /\ outbox[k].attempts = PublishMax
         \/ outbox[k].state = "published" /\ messages[k] > 0
    /\ delivery[k].status = "dead_letter" => delivery[k].attempts >= MaxAttempts

\* While the lease of a worker at work is live, nobody but that worker records an
\* outcome for the row, neither a slower worker it took over from nor the reaper;
\* only a fence may take it away (claim, _with_valid_lease, reap_expired).
LeaseIsExclusive ==
  [][\A w \in Workers, k \in Keys :
       /\ worker[w].key = k /\ worker[w].token = delivery[k].token /\ delivery[k].live
       /\ delivery'[k].status \notin {"in_flight", "cancelled", "absent"}
       => worker'[w] = Idle]_vars
=============================================================================
