--------------------------- MODULE CallbackOutbox ---------------------------
(***************************************************************************)
(* The callback outbox: prepayment validation and its inline callback, the *)
(* CallbackDelivery rows with bounded retries and dead-lettering, and the  *)
(* periodic replay of due deliveries.                                      *)
(*                                                                         *)
(* Source: apps/payments/govstack_tasks.py (validate_prepayment_async,     *)
(*         replay_govstack_callbacks, _post_callback),                     *)
(*         govstack_failure_services.py (queue_callback,                   *)
(*         record_callback_result, due_callbacks),                         *)
(*         management/commands/setup_periodic_tasks.py.                    *)
(*                                                                         *)
(* One action is one transaction, one unlocked read or one HTTP request.   *)
(* Backoff times are abstracted: a row waiting for its next attempt may be *)
(* due or not.                                                             *)
(***************************************************************************)
EXTENDS Integers, FiniteSets

CONSTANTS
  Callbacks,             \* results to report: validations and batch decisions
  CallbackWorkers,       \* processes running validate_prepayment_async
  Sweepers,              \* processes running replay_govstack_callbacks
  MAX_CALLBACK_ATTEMPTS, \* 5 in the code
  NoCallback

ASSUME MaxAttemptsAssumption == MAX_CALLBACK_ATTEMPTS \in Nat \ {0}
ASSUME DisjointAssumption == CallbackWorkers \cap Sweepers = {}

VARIABLES
  validation,   \* validation[c]: PrepaymentValidationRequest.status
  delivery,     \* delivery[c]: the CallbackDelivery row
  messages,     \* callbacks whose validation task message is in the broker
  scheduled,    \* names of sweep messages in the broker
  process,      \* process[x]: where a worker or sweeper is
  received      \* received[c]: the source building block got the callback

outboxVars == <<validation, delivery, messages, scheduled, process, received>>

Processes == CallbackWorkers \cup Sweepers

Waiting == {"pending", "retry"}
Settled == {"delivered", "dead"}

NoDelivery == [status |-> "none", count |-> 0]
Queued == [status |-> "pending", count |-> 0]
OutboxIdle == [pc |-> "idle", item |-> NoCallback, ok |-> FALSE, todo |-> {}]

\* A validation request was accepted and its task dispatched on commit, or a
\* batch decision has queued its callback in its own transaction.
OutboxInit ==
  /\ validation \in [Callbacks -> {"pending", "completed"}]
  /\ delivery = [c \in Callbacks |-> IF validation[c] = "pending" THEN NoDelivery ELSE Queued]
  /\ messages = {c \in Callbacks : validation[c] = "pending"}
  /\ scheduled = {}
  /\ process = [x \in Processes |-> OutboxIdle]
  /\ received = [c \in Callbacks |-> FALSE]

Become(x, p) == process' = [process EXCEPT ![x] = p]
At(x, pc, c) == process[x].pc = pc /\ process[x].item = c

----------------------------------------------------------------------------
(* validate_prepayment_async.                                              *)

ReceiveValidation(w, c) ==
  /\ process[w].pc = "idle" /\ c \in messages
  /\ messages' = messages \ {c}
  /\ Become(w, [OutboxIdle EXCEPT !.pc = "validate", !.item = c])
  /\ UNCHANGED <<validation, delivery, scheduled, received>>

\* The validation result, committed before the callback is queued; a request
\* that is no longer pending ends the task.
Validate(w, c) ==
  /\ At(w, "validate", c)
  /\ validation' = [validation EXCEPT ![c] = "completed"]
  /\ Become(w, IF validation[c] = "pending" THEN [process[w] EXCEPT !.pc = "queue"] ELSE OutboxIdle)
  /\ UNCHANGED <<delivery, messages, scheduled, received>>

\* get_or_create of the callback attempt and of its delivery.
QueueCallback(w, c) ==
  /\ At(w, "queue", c)
  /\ delivery' = IF delivery[c].status = "none" THEN [delivery EXCEPT ![c] = Queued]
                 ELSE delivery
  /\ Become(w, [process[w] EXCEPT !.pc = "post"])
  /\ UNCHANGED <<validation, messages, scheduled, received>>

----------------------------------------------------------------------------
(* Transport and its result, inline or from the sweep.                     *)

\* What a POST may meet: "unsafe" is refused before the request, "lost" is an
\* accepted request whose answer times out.
CallbackAnswers == {"unsafe", "2xx", "3xx", "error", "lost"}

\* (Mutant.)  A redirect counts as delivery.
PostAnswered(answer) == answer \in {"2xx", "3xx"}

PostSucceeded(answer) == answer = "2xx"

PostCallback(x, c) ==
  /\ At(x, "post", c)
  /\ \E answer \in CallbackAnswers :
       /\ received' = [received EXCEPT ![c] = @ \/ answer \in {"2xx", "lost"}]
       /\ Become(x, [process[x] EXCEPT !.pc = "record", !.ok = PostSucceeded(answer)])
  /\ UNCHANGED <<validation, delivery, messages, scheduled>>

\* (Mutant.)  One attempt too many.
RecordedOnceMore(d, ok) ==
  IF d.status \in Settled THEN d
  ELSE [status |-> IF ok THEN "delivered"
                   ELSE IF d.count + 1 > MAX_CALLBACK_ATTEMPTS THEN "dead" ELSE "retry",
        count |-> d.count + 1]

\* record_callback_result under the row lock.
Recorded(d, ok) ==
  IF d.status \in Settled THEN d
  ELSE [status |-> IF ok THEN "delivered"
                   ELSE IF d.count + 1 >= MAX_CALLBACK_ATTEMPTS THEN "dead" ELSE "retry",
        count |-> d.count + 1]

\* Then the worker's task ends, or the sweep goes on with its next row.
RecordCallbackResult(x, c) ==
  LET rest == process[x].todo \ {c}
  IN  /\ At(x, "record", c)
      /\ delivery' = [delivery EXCEPT ![c] = Recorded(delivery[c], process[x].ok)]
      /\ Become(x, IF rest = {} THEN OutboxIdle
                   ELSE [OutboxIdle EXCEPT !.pc = "next", !.todo = rest])
      /\ UNCHANGED <<validation, messages, scheduled, received>>

----------------------------------------------------------------------------
(* replay_govstack_callbacks and its schedule.                             *)

\* The name the task is registered under, and the one setup_periodic_tasks
\* gives Beat.
RegisteredName == "payments.replay_govstack_callbacks"
ScheduledName == "apps.payments.govstack_tasks.replay_govstack_callbacks"

BeatTick ==
  /\ scheduled' = scheduled \cup {ScheduledName}
  /\ UNCHANGED <<validation, delivery, messages, process, received>>

\* The task sent by its registered name (from a shell, or a corrected schedule).
OperatorSends ==
  /\ scheduled' = scheduled \cup {RegisteredName}
  /\ UNCHANGED <<validation, delivery, messages, process, received>>

\* A worker drops a message whose task name is not registered.
DiscardUnregistered ==
  /\ \E n \in scheduled \ {RegisteredName} : scheduled' = scheduled \ {n}
  /\ UNCHANGED <<validation, delivery, messages, process, received>>

Due == {c \in Callbacks : delivery[c].status \in Waiting}

\* due_callbacks is evaluated once; its rows grow stale while it is worked off.
SweepStart(s, due) ==
  /\ process[s].pc = "idle"
  /\ RegisteredName \in scheduled
  /\ due \subseteq Due
  /\ due # {}
  /\ scheduled' = scheduled \ {RegisteredName}
  /\ Become(s, [OutboxIdle EXCEPT !.pc = "next", !.todo = due])
  /\ UNCHANGED <<validation, delivery, messages, received>>

SweepNext(s, c) ==
  /\ process[s].pc = "next" /\ c \in process[s].todo
  /\ Become(s, [process[s] EXCEPT !.pc = "post", !.item = c])
  /\ UNCHANGED <<validation, delivery, messages, scheduled, received>>

----------------------------------------------------------------------------
(* A lost process: acks_late, so the broker requeues its message.          *)

WorkerCrash(w) ==
  /\ process[w].pc # "idle"
  /\ messages' = messages \cup {process[w].item}
  /\ Become(w, OutboxIdle)
  /\ UNCHANGED <<validation, delivery, scheduled, received>>

SweeperCrash(s) ==
  /\ process[s].pc # "idle"
  /\ scheduled' = scheduled \cup {RegisteredName}
  /\ Become(s, OutboxIdle)
  /\ UNCHANGED <<validation, delivery, messages, received>>

----------------------------------------------------------------------------
OutboxNext ==
  \/ \E w \in CallbackWorkers, c \in Callbacks :
       ReceiveValidation(w, c) \/ Validate(w, c) \/ QueueCallback(w, c)
  \/ \E x \in Processes, c \in Callbacks : PostCallback(x, c) \/ RecordCallbackResult(x, c)
  \/ \E s \in Sweepers : \/ \E due \in SUBSET Callbacks : SweepStart(s, due)
                         \/ \E c \in Callbacks : SweepNext(s, c)
  \/ BeatTick \/ OperatorSends \/ DiscardUnregistered
  \/ \E w \in CallbackWorkers : WorkerCrash(w)
  \/ \E s \in Sweepers : SweeperCrash(s)

OutboxSpec == OutboxInit /\ [][OutboxNext]_outboxVars

\* Tasks are taken, go on, and do not die at the same place for ever.
TaskFairness ==
  /\ \A w \in CallbackWorkers :
       /\ SF_outboxVars(\E c \in Callbacks : ReceiveValidation(w, c))
       /\ SF_outboxVars(\E c \in Callbacks : Validate(w, c) \/ QueueCallback(w, c))
  /\ \A s \in Sweepers :
       /\ SF_outboxVars(\E due \in SUBSET Callbacks : SweepStart(s, due))
       /\ SF_outboxVars(\E c \in Callbacks : SweepNext(s, c))
  /\ \A x \in Processes :
       SF_outboxVars(\E c \in Callbacks : PostCallback(x, c) \/ RecordCallbackResult(x, c))

\* Beat follows its schedule for ever, and its messages are taken.  Nothing makes
\* an operator send anything.
BeatFairness == WF_outboxVars(BeatTick) /\ WF_outboxVars(DiscardUnregistered)

ScheduledSpec == OutboxSpec /\ TaskFairness /\ BeatFairness

----------------------------------------------------------------------------
(* Properties.                                                             *)

OutboxTypes ==
  /\ validation \in [Callbacks -> {"pending", "completed"}]
  /\ delivery \in [Callbacks -> [status: {"none"} \cup Waiting \cup Settled,
                                 count: 0 .. MAX_CALLBACK_ATTEMPTS]]
  /\ messages \subseteq Callbacks
  /\ scheduled \subseteq {RegisteredName, ScheduledName}
  /\ process \in [Processes -> [pc: {"idle", "validate", "queue", "post", "record", "next"},
                                item: Callbacks \cup {NoCallback}, ok: BOOLEAN,
                                todo: SUBSET Callbacks]]
  /\ \A x \in Processes : process[x].pc \notin {"idle", "next"} => process[x].item \in Callbacks
  /\ \A w \in CallbackWorkers : process[w].pc # "next" /\ process[w].todo = {}
  /\ received \in [Callbacks -> BOOLEAN]

\* A callback is recorded delivered only when the source building block got it:
\* refused, redirected and failed requests never count, whichever process made
\* them (_post_callback, record_callback_result).
DeliveredIsReceived ==
  \A c \in Callbacks : delivery[c].status = "delivered" => received[c]

\* The retry budget is exact, although the inline post and several sweeps post
\* the same row at once: a row waits with fewer than MAX_CALLBACK_ATTEMPTS
\* results, is dead with exactly that many, and never loses its count.
BudgetIsExact ==
  \A c \in Callbacks :
     LET d == delivery[c]
     IN  /\ d.status \in {"none", "pending"} <=> d.count = 0
         /\ d.status = "retry" => d.count < MAX_CALLBACK_ATTEMPTS
         /\ d.status = "dead" => d.count = MAX_CALLBACK_ATTEMPTS

\* Delivered and dead are final: a late result of another post changes nothing,
\* and no row forgets a result.
SettledIsFinal ==
  [][\A c \in Callbacks :
        /\ delivery[c].status \in Settled => delivery'[c] = delivery[c]
        /\ delivery'[c].count \in {delivery[c].count, delivery[c].count + 1}]_outboxVars

\* What setup_periodic_tasks.py:142-148 schedules the sweep for: every queued
\* callback is delivered or dead-lettered in the end.  Refuted, as no worker
\* knows the name Beat sends.
QueuedIsSettled ==
  \A c \in Callbacks : delivery[c].status \in Waiting ~> delivery[c].status \in Settled

----------------------------------------------------------------------------
(* The inductive strengthening of the safety properties above.             *)

\* A process that holds a success has been answered by the receiver, and only
\* queued rows are posted.
PostInv ==
  \A x \in Processes :
     /\ process[x].pc = "record" /\ process[x].ok => received[process[x].item]
     /\ process[x].pc \in {"post", "record"} => delivery[process[x].item].status # "none"
     /\ \A c \in process[x].todo : delivery[c].status # "none"

OutboxInv == OutboxTypes /\ DeliveredIsReceived /\ BudgetIsExact /\ PostInv

=============================================================================
