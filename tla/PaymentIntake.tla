--------------------------- MODULE PaymentIntake ---------------------------
(***************************************************************************)
(* Admission of GovStack payment requests: a bulk batch reserves a command *)
(* with its attempt and an outbox row, stores the batch, and hands both to *)
(* workers after commit; a bill notification records a payment and its     *)
(* attempt.                                                                *)
(*                                                                         *)
(* Source: apps/payments/payment_command_{boundary,consumer,tasks}.py,     *)
(*         govstack_views.py (BulkPaymentView), govstack_services.py       *)
(*         (receive_batch, create_transfer_request, mark_bill_paid).       *)
(*                                                                         *)
(* A request stands for one payload; posting it again is a retry.  A POST  *)
(* is one transaction (ATOMIC_REQUESTS); unique constraints serialise      *)
(* concurrent inserts.  Its on_commit hooks then run in order, in the same *)
(* process, and are lost with it or with a hook that raises.  The provider *)
(* runtime is enabled.                                                     *)
(*                                                                         *)
(* publish and the consumer lock an outbox row together with its nullable  *)
(* command__attempt.  PostgreSQL refuses that lock, so there every publish *)
(* hook raises: of this model's behaviours only those are left in which    *)
(* ServerCrash comes before each Publish.                                  *)
(***************************************************************************)
EXTENDS Naturals, Sequences

CONSTANTS
  BulkRequests,  \* POST /bulk-payment payloads
  BillRequests,  \* POST /billTransferRequests payloads
  Identity,      \* Identity[q]: tenant and RequestID of a request
  Batch,         \* Batch[q]: BatchID of a bulk request
  Bill,          \* Bill[q]: the bill a notification names
  Servers,       \* HTTP processes
  Consumers,     \* processes running consume_bound_command_outbox_task
  Absent

Requests == BulkRequests \cup BillRequests
Commands == {Identity[q] : q \in BulkRequests}
Payments == {Identity[q] : q \in BillRequests}
Batches == {Batch[q] : q \in BulkRequests}
Bills == {Bill[q] : q \in BillRequests}

ASSUME IntakeAssumption ==
  /\ DOMAIN Identity = Requests /\ DOMAIN Batch = BulkRequests /\ DOMAIN Bill = BillRequests
  /\ BulkRequests \cap BillRequests = {} /\ Commands \cap Payments = {}
  /\ Absent \notin Requests

VARIABLES
  command,        \* command[i]: the request that reserved identity i
  commandOutbox,  \* commandOutbox[i]: the command's PaymentCommandOutbox row
  bulkBatch,      \* bulkBatch[b]: the request that stored BulkPaymentBatch b
  transfer,        \* transfer[i]: the notification recorded under identity i
  bill,           \* bill[b]: paid, or open (unpaid, overdue, cancelled)
  server,         \* server[s]: the on_commit hooks still to run
  deliveries,     \* consume_bound_command_outbox messages
  consumer,       \* the consumers
  sent,           \* sent[t]: messages sent to a worker task (history)
  answered        \* answered[q]: answers given to q (history)

intakeVars == <<command, commandOutbox, bulkBatch, transfer, bill, server, deliveries,
                consumer, sent, answered>>

\* orchestrate_attempt of a command or a notification, process_bulk_payment_batch.
WorkerTasks == ({"orchestrate"} \X (Commands \cup Payments)) \cup ({"process"} \X Batches)

Hooks == ({"publish", "enqueue"} \X Commands) \cup ({"send"} \X WorkerTasks)

ConsumerIdle == [pc |-> "idle", item |-> Absent]

IntakeInit ==
  /\ command = [i \in Commands |-> Absent]
  /\ commandOutbox = [i \in Commands |-> [published |-> FALSE, acknowledged |-> FALSE]]
  /\ bulkBatch = [b \in Batches |-> Absent]
  /\ transfer = [i \in Payments |-> Absent]
  /\ bill = [b \in Bills |-> "open"]
  /\ server = [s \in Servers |-> <<>>]
  /\ deliveries = {}
  /\ consumer = [w \in Consumers |-> ConsumerIdle]
  /\ sent = [t \in WorkerTasks |-> 0]
  /\ answered = [q \in Requests |-> {}]

Answer(q, a) == answered' = [answered EXCEPT ![q] = @ \cup {a}]

Send(t) == sent' = [sent EXCEPT ![t] = @ + 1]

----------------------------------------------------------------------------
(* BulkPaymentView.post.                                                   *)

\* The command's hook was registered first.
HooksOf(i, b) == <<<<"publish", i>>, <<"send", <<"process", b>>>>>>

\* The command, its attempt, intent and outbox row, then the batch.  A BatchID
\* already taken is refused, but the command stays: nothing raises out of the
\* request's transaction.
PostBulk(s, q) ==
  LET i == Identity[q]
      b == Batch[q]
  IN  /\ server[s] = <<>> /\ command[i] = Absent
      /\ command' = [command EXCEPT ![i] = q]
      /\ \/ /\ bulkBatch[b] = Absent
            /\ bulkBatch' = [bulkBatch EXCEPT ![b] = q]
            /\ server' = [server EXCEPT ![s] = HooksOf(i, b)]
            /\ Answer(q, "ok")
         \/ /\ bulkBatch[b] # Absent
            /\ server' = [server EXCEPT ![s] = <<Head(HooksOf(i, b))>>]
            /\ Answer(q, "refused")
            /\ UNCHANGED bulkBatch
      /\ UNCHANGED <<commandOutbox, transfer, bill, deliveries, consumer, sent>>

\* (Mutant.)  The fingerprint of the stored command is not compared.
SameIdentity(q) == command[Identity[q]] # Absent

SameCommand(q) == command[Identity[q]] = q

\* The identity is taken: by this payload, a replay that is refused once its
\* batch exists; by another one, a conflict.
ReplayBulk(s, q) ==
  /\ server[s] = <<>> /\ command[Identity[q]] # Absent
  /\ Answer(q, IF SameCommand(q) /\ bulkBatch[Batch[q]] = Absent THEN "ok" ELSE "refused")
  /\ UNCHANGED <<command, commandOutbox, bulkBatch, transfer, bill, server, deliveries, consumer, sent>>

----------------------------------------------------------------------------
(* Bill notifications.                                                     *)

\* create_transfer_request, under the lock of the bill, whatever its status.
NotifyPayment(s, q) ==
  LET i == Identity[q]
  IN  /\ server[s] = <<>> /\ transfer[i] = Absent
      /\ transfer' = [transfer EXCEPT ![i] = q]
      /\ bill' = [bill EXCEPT ![Bill[q]] = "paid"]
      /\ server' = [server EXCEPT ![s] = <<<<"send", <<"orchestrate", i>>>>>>]
      /\ Answer(q, "ok")
      /\ UNCHANGED <<command, commandOutbox, bulkBatch, deliveries, consumer, sent>>

\* DuplicateBillPaymentError.
NotifyAgain(s, q) ==
  /\ server[s] = <<>> /\ transfer[Identity[q]] # Absent
  /\ Answer(q, "refused")
  /\ UNCHANGED <<command, commandOutbox, bulkBatch, transfer, bill, server, deliveries, consumer, sent>>

MarkBillPaid(b) ==
  /\ bill' = [bill EXCEPT ![b] = "paid"]
  /\ UNCHANGED <<command, commandOutbox, bulkBatch, transfer, server, deliveries, consumer, sent, answered>>

----------------------------------------------------------------------------
(* After commit.                                                           *)

Hook(s, kind, item) == server[s] # <<>> /\ Head(server[s]) = <<kind, item>>

\* publish, under the lock of the outbox row; its own hook runs next.
Publish(s, i) ==
  /\ Hook(s, "publish", i)
  /\ commandOutbox' = [commandOutbox EXCEPT ![i].published = TRUE]
  /\ server' = [server EXCEPT ![s] =
       (IF commandOutbox[i].published THEN <<>> ELSE <<<<"enqueue", i>>>>) \o Tail(@)]
  /\ UNCHANGED <<command, bulkBatch, transfer, bill, deliveries, consumer, sent, answered>>

EnqueueConsumer(s, i) ==
  /\ Hook(s, "enqueue", i)
  /\ deliveries' = deliveries \cup {i}
  /\ server' = [server EXCEPT ![s] = Tail(@)]
  /\ UNCHANGED <<command, commandOutbox, bulkBatch, transfer, bill, consumer, sent, answered>>

SendTask(s, t) ==
  /\ Hook(s, "send", t)
  /\ Send(t)
  /\ server' = [server EXCEPT ![s] = Tail(@)]
  /\ UNCHANGED <<command, commandOutbox, bulkBatch, transfer, bill, deliveries, consumer, answered>>

\* The process dies or a hook raises: the hooks that are left never run.
ServerCrash(s) ==
  /\ server[s] # <<>>
  /\ server' = [server EXCEPT ![s] = <<>>]
  /\ UNCHANGED <<command, commandOutbox, bulkBatch, transfer, bill, deliveries, consumer, sent, answered>>

----------------------------------------------------------------------------
(* consume_bound_command_outbox_task.                                      *)

ConsumerBecomes(w, pc, i) == consumer' = [consumer EXCEPT ![w] = [pc |-> pc, item |-> i]]

\* acks_late: a copy may become visible again while it runs.
Consume(w, i) ==
  /\ consumer[w] = ConsumerIdle /\ i \in deliveries
  /\ deliveries' \in {deliveries, deliveries \ {i}}
  /\ ConsumerBecomes(w, "acknowledge", i)
  /\ UNCHANGED <<command, commandOutbox, bulkBatch, transfer, bill, server, sent, answered>>

\* (Mutant.)  Every delivery is acknowledged anew.
NeverAcknowledged(i) == FALSE

Acknowledged(i) == commandOutbox[i].acknowledged

\* acknowledge_reserved_command, under the lock of the outbox row: the first
\* delivery alone goes on to schedule.
AcknowledgeCommand(w, i) ==
  /\ consumer[w] = [pc |-> "acknowledge", item |-> i]
  /\ IF Acknowledged(i) THEN ConsumerBecomes(w, "idle", Absent) /\ UNCHANGED commandOutbox
     ELSE /\ commandOutbox' = [commandOutbox EXCEPT ![i].acknowledged = TRUE]
          /\ ConsumerBecomes(w, "schedule", i)
  /\ UNCHANGED <<command, bulkBatch, transfer, bill, server, deliveries, sent, answered>>

ScheduleOrchestration(w, i) ==
  /\ consumer[w] = [pc |-> "schedule", item |-> i]
  /\ Send(<<"orchestrate", i>>)
  /\ ConsumerBecomes(w, "idle", Absent)
  /\ UNCHANGED <<command, commandOutbox, bulkBatch, transfer, bill, server, deliveries, answered>>

\* reject_on_worker_lost: the message returns, the hook does not.
ConsumerCrash(w) ==
  /\ consumer[w] # ConsumerIdle
  /\ deliveries' = deliveries \cup {consumer[w].item}
  /\ ConsumerBecomes(w, "idle", Absent)
  /\ UNCHANGED <<command, commandOutbox, bulkBatch, transfer, bill, server, sent, answered>>

----------------------------------------------------------------------------
ServerStep(s) ==
  \/ \E q \in BulkRequests : PostBulk(s, q) \/ ReplayBulk(s, q)
  \/ \E q \in BillRequests : NotifyPayment(s, q) \/ NotifyAgain(s, q)
  \/ \E i \in Commands : Publish(s, i) \/ EnqueueConsumer(s, i)
  \/ \E t \in WorkerTasks : SendTask(s, t)
  \/ ServerCrash(s)

ConsumerStep(w) ==
  \/ \E i \in Commands : Consume(w, i) \/ AcknowledgeCommand(w, i) \/ ScheduleOrchestration(w, i)
  \/ ConsumerCrash(w)

IntakeNext ==
  \/ \E s \in Servers : ServerStep(s)
  \/ \E w \in Consumers : ConsumerStep(w)
  \/ \E b \in Bills : MarkBillPaid(b)

IntakeSpec == IntakeInit /\ [][IntakeNext]_intakeVars

----------------------------------------------------------------------------
(* Properties.                                                             *)

IntakeTypes ==
  /\ command \in [Commands -> BulkRequests \cup {Absent}]
  /\ commandOutbox \in [Commands -> [published: BOOLEAN, acknowledged: BOOLEAN]]
  /\ bulkBatch \in [Batches -> BulkRequests \cup {Absent}]
  /\ transfer \in [Payments -> BillRequests \cup {Absent}]
  /\ bill \in [Bills -> {"open", "paid"}]
  /\ server \in [Servers -> Seq(Hooks)]
  /\ deliveries \subseteq Commands
  /\ consumer \in [Consumers -> [pc: {"idle", "acknowledge", "schedule"},
                                 item: Commands \cup {Absent}]]
  /\ sent \in [WorkerTasks -> Nat]
  /\ answered \in [Requests -> SUBSET {"ok", "refused"}]

\* No task is handed to the workers twice, however often a request is retried,
\* its hooks die or its message is redelivered (publish,
\* acknowledge_reserved_command).
HandedOverOnce == \A t \in WorkerTasks : sent[t] <= 1

\* A request is told it was received only when its own payload holds the
\* identity and what it asked for is stored, with concurrent requests reusing
\* its RequestID, its BatchID or its bill (reserve, receive_batch,
\* create_transfer_request).
AnswersAreTrue ==
  /\ \A q \in BulkRequests :
       "ok" \in answered[q] => command[Identity[q]] = q /\ bulkBatch[Batch[q]] = q
  /\ \A q \in BillRequests :
       "ok" \in answered[q] => transfer[Identity[q]] = q /\ bill[Bill[q]] = "paid"

=============================================================================
