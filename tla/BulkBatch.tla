------------------------------ MODULE BulkBatch ------------------------------
(***************************************************************************)
(* One bulk disbursement batch: Celery workers running                     *)
(* process_bulk_payment_batch under a durable, generation-fenced lease,    *)
(* the projection of its instructions from provider evidence, and the      *)
(* append-only policy decisions with their callback outbox.                *)
(*                                                                         *)
(* Source: apps/payments/govstack_tasks.py, govstack_batch_lease.py,       *)
(*         govstack_batch_policy.py, govstack_batch_decision.py.           *)
(*                                                                         *)
(* Attempts names the batch's credit instructions and, as the binding is   *)
(* one to one, their payment attempts.  Batches share no rows, so one      *)
(* batch, with a callback URL, is modelled.  Amounts are named by the      *)
(* instructions that carry them.  A transaction is one action: the second  *)
(* one of the task holds the batch, lease, instruction and attempt locks   *)
(* until it commits.                                                       *)
(***************************************************************************)
EXTENDS PaymentLifecycle

CONSTANTS
  Workers,          \* processes consuming the "payments" queue
  Tasks,            \* Celery task ids dispatched for the batch
  MaxCopies,        \* bound on the copies of one task message
  MaxObservations,  \* bound on the provider observations recorded
  ThresholdPct,     \* GOVSTACK_BULK_FAILURE_THRESHOLD, in percent
  RuntimeEnabled,   \* GOVSTACK_PAYMENT_PROVIDER_RUNTIME_ENABLED
  SlowTasks,        \* may a running task outlive its five-minute lease?
  Exceptions,       \* may the processing transaction raise unexpectedly?
  NullableJoinLocks \* does the database lock the nullable side of a join?
                    \* PostgreSQL, which the settings name, refuses it

ASSUME MaxCopiesAssumption == MaxCopies \in Nat
ASSUME MaxObservationsAssumption == MaxObservations \in Nat
ASSUME NoneIsNoTask == None \notin Tasks

VARIABLES
  batch,            \* status and the instructions summed in completed/failed_amount
  lease,            \* the BatchLease row; generation 0 when there is none
  instruction,      \* instruction[a]: CreditInstruction.status
  attempt,          \* attempt[a]: status of the bound PaymentAttempt, None if unbound
  observations,     \* ProviderObservation rows
  reconciliations,  \* PaymentReconciliation rows
  decisions,        \* GovStackBatchDecision rows
  outbox,           \* CallbackDelivery rows, named by the Status they carry
  copies,           \* copies[t]: copies of a task message in the broker
  worker,           \* worker[w]: where a worker is, its task and lease handle
  ext               \* ext[a]: the payment in the provider's own books

vars == <<batch, lease, instruction, attempt, observations, reconciliations,
          decisions, outbox, copies, worker, ext>>

evidence == <<attempt, observations, reconciliations>>
result == <<batch, instruction, decisions, outbox>>

Open == {"received", "processing"}
BatchStatus == Open \cup {"completed", "partial", "failed"}
Action == {"empty", "pause", "retry", "review", "terminal", "return_funds"}
Concluding == {"terminal", "return_funds"}

Idle == [pc |-> "idle", task |-> None, gen |-> 0]

\* receive_batch leaves pending instructions; rows of earlier releases may be
\* completed or failed without an attempt.
Init ==
  /\ batch = [status |-> "received", completed |-> {}, failed |-> {}]
  /\ lease = [owner |-> None, gen |-> 0, live |-> FALSE]
  /\ instruction \in [Attempts -> {"pending", "completed", "failed"}]
  /\ attempt = [a \in Attempts |-> None]
  /\ observations = {} /\ reconciliations = {}
  /\ decisions = {} /\ outbox = {}
  /\ copies \in [Tasks -> 1 .. MaxCopies]
  /\ worker = [w \in Workers |-> Idle]
  /\ ext \in [Attempts -> Final]

----------------------------------------------------------------------------
(* The task message.                                                       *)

Goto(w, pc) == worker' = [worker EXCEPT ![w].pc = pc]

Receive(w, t) ==
  /\ worker[w].pc = "idle"
  /\ copies[t] > 0
  /\ copies' = [copies EXCEPT ![t] = @ - 1]
  /\ worker' = [worker EXCEPT ![w] = [pc |-> "admit", task |-> t, gen |-> 0]]
  /\ UNCHANGED <<lease, ext, evidence, result>>

\* The task returned or raised.
Ack(w) ==
  /\ worker[w].pc = "ack"
  /\ worker' = [worker EXCEPT ![w] = Idle]
  /\ UNCHANGED <<lease, copies, ext, evidence, result>>

\* The worker is lost before the acknowledgement: the broker requeues.
Crash(w) ==
  /\ worker[w].pc # "idle"
  /\ copies' = [copies EXCEPT ![worker[w].task] = @ + 1]
  /\ worker' = [worker EXCEPT ![w] = Idle]
  /\ UNCHANGED <<lease, ext, evidence, result>>

----------------------------------------------------------------------------
(* The lease (BatchLeaseService).                                          *)

\* (Mutant.)  A redelivered task is refused its own live lease.
BusyAtAll(t) == lease.live

Busy(t) == lease.live /\ lease.owner # t

\* (Mutant.)  The generation fence is missing.
OwnsByName(w) == lease.owner = worker[w].task

Owns(w) ==
  lease.live /\ lease.owner = worker[w].task /\ lease.gen = worker[w].gen

\* Already terminal, or the lease is held by another task: the message is
\* acknowledged and there is nothing to release.
NotAdmitted(w) ==
  /\ worker[w].pc = "admit"
  /\ batch.status \notin Open \/ Busy(worker[w].task)
  /\ Goto(w, "ack")
  /\ UNCHANGED <<lease, copies, ext, evidence, result>>

\* acquire: create at generation 1, replay the live lease of the same task, or
\* take over an expired one at the next generation; heartbeat.
AcquiredGeneration == IF lease.live THEN lease.gen ELSE lease.gen + 1

Acquire(w) ==
  LET t == worker[w].task
      g == AcquiredGeneration
  IN  /\ worker[w].pc = "admit"
      /\ batch.status \in Open /\ ~Busy(t)
      /\ g <= MaxGen
      /\ lease' = [owner |-> t, gen |-> g, live |-> TRUE]
      /\ worker' = [worker EXCEPT ![w] = [pc |-> "process", task |-> t, gen |-> g]]
      /\ UNCHANGED <<copies, ext, evidence, result>>

\* expires_at passes.  Without slow tasks a lease expires only when its owner is
\* dead, and fewer than MaxGen times.
LeaseExpires ==
  /\ lease.live
  /\ \/ SlowTasks
     \/ /\ lease.gen < MaxGen
        /\ \A w \in Workers : worker[w].pc \in {"process", "release"} => ~Owns(w)
  /\ lease' = [lease EXCEPT !.live = FALSE]
  /\ UNCHANGED <<copies, worker, ext, evidence, result>>

\* The finally block: a stale handle releases nothing.
Release(w) ==
  /\ worker[w].pc = "release"
  /\ lease' = IF Owns(w) THEN [lease EXCEPT !.live = FALSE] ELSE lease
  /\ Goto(w, "ack")
  /\ UNCHANGED <<copies, ext, evidence, result>>

----------------------------------------------------------------------------
(* Child projection.                                                       *)

\* The attempt an unbound instruction gets: local lookup of the beneficiary
\* rejects it, or leaves it to the runtime or to review.
NewAttempt(found) ==
  IF ~found THEN "rejected" ELSE IF RuntimeEnabled THEN "pending" ELSE "review"

\* An unbound instruction that already looks terminal gets no attempt.
AttemptsAfter(found) ==
  [a \in Attempts |->
     IF attempt[a] # None \/ instruction[a] \in {"completed", "failed"} THEN attempt[a]
     ELSE NewAttempt(a \in found)]

\* (Mutant.)  A locally rejected attempt counts as final.
TrustingChildStatus(a, s) ==
  IF s \in Final \cup {"retryable", "uncertain"} THEN s ELSE "review"

ChildStatus(a, s) ==
  LET finality == MaterializedFinality(a, s, observations, reconciliations)
  IN  IF s # None /\ finality \in Final THEN finality
      ELSE IF s \in {"retryable", "uncertain"} THEN s ELSE "review"

Children(attempts) == [a \in Attempts |-> ChildStatus(a, attempts[a])]

InstructionAfter(child, old) ==
  CASE child = "settled"  -> "completed"
    [] child = "rejected" -> "failed"
    [] OTHER              -> IF old = "pending" THEN "validated" ELSE old

----------------------------------------------------------------------------
(* The policy and the decision.                                            *)

Having(items, S) == {a \in Attempts : items[a] \in S}

PolicyState(items) ==
  LET blocking == Attempts \ Having(items, Final)
  IN  IF Cardinality(blocking) * 100 > ThresholdPct * Cardinality(Attempts) THEN "paused"
      ELSE IF Having(items, {"uncertain"}) # {} THEN "uncertain"
      ELSE IF Having(items, {"retryable"}) # {} THEN "retryable"
      ELSE IF Having(items, {"review"}) # {} THEN "review"
      ELSE IF Having(items, {"rejected"}) # {} THEN "partial"
      ELSE "completed"

OutcomeAction(items, returnFunds) ==
  LET state == PolicyState(items)
  IN  IF Attempts = {} THEN "empty"
      ELSE IF Having(items, Final) # Attempts
        THEN IF state = "paused" THEN "pause"
             ELSE IF state \in {"retryable", "uncertain"} THEN "retry"
             ELSE "review"
      ELSE IF state \notin {"completed", "partial"} THEN "review"
      ELSE IF returnFunds /\ Having(items, {"rejected"}) # {} THEN "return_funds"
      ELSE "terminal"

\* (Mutant.)  The status is derived from the counts, whatever was decided.
ProjectionOfCounts(items, action) ==
  IF Having(items, {"rejected"}) = {} THEN "completed"
  ELSE IF Having(items, {"settled"}) = {} THEN "failed"
  ELSE "partial"

Projection(items, action) ==
  IF action \notin Concluding THEN "processing"
  ELSE IF Having(items, {"rejected"}) = {} THEN "completed"
  ELSE IF Having(items, {"settled"}) = {} THEN "failed"
  ELSE "partial"

\* A decision is identified by its inputs, not by the generation it was made
\* under; one generation never makes two.
SameInputs(d, items, returnFunds) == d.items = items /\ d.returnFunds = returnFunds

Conflicts(gen, items, returnFunds) ==
  \E d \in decisions : d.gen = gen /\ ~SameInputs(d, items, returnFunds)

----------------------------------------------------------------------------
(* The processing transaction.                                             *)

\* Ownership and status are read again under the locks of this transaction.
Decidable(w) == Owns(w) /\ batch.status \in Open

\* Ownership lost, the batch already terminal, or a conflicting decision:
\* nothing is written.  The finally block follows.
NotDecided(w) ==
  /\ worker[w].pc = "process"
  /\ \/ ~Decidable(w)
     \/ \E found \in SUBSET Attempts, returnFunds \in BOOLEAN :
          Conflicts(worker[w].gen, Children(AttemptsAfter(found)), returnFunds)
  /\ Goto(w, "release")
  /\ UNCHANGED <<lease, copies, ext, evidence, result>>

\* The instructions are locked together with their nullable payment_attempt.
MayRaise == Exceptions \/ ~NullableJoinLocks

\* That lock, a soft time limit, an idempotency conflict or another database
\* error rolls the transaction back; the message will be acknowledged.
Fails(w) ==
  /\ worker[w].pc = "process"
  /\ MayRaise
  /\ Goto(w, "release")
  /\ UNCHANGED <<lease, copies, ext, evidence, result>>

\* found: the beneficiaries active now; returnFunds: the worker's setting.
\* A decision seen before is replayed, without audit entry or callback.
Decide(w) ==
  /\ worker[w].pc = "process"
  /\ Decidable(w) /\ NullableJoinLocks
  /\ \E found \in SUBSET Attempts, returnFunds \in BOOLEAN :
       LET attempts == AttemptsAfter(found)
           items    == Children(attempts)
           action   == OutcomeAction(items, returnFunds)
           created  == \A d \in decisions : ~SameInputs(d, items, returnFunds)
       IN  /\ ~Conflicts(worker[w].gen, items, returnFunds)
           /\ attempt' = attempts
           /\ instruction' = [a \in Attempts |-> InstructionAfter(items[a], instruction[a])]
           /\ batch' = [status    |-> Projection(items, action),
                        completed |-> Having(items, {"settled"}),
                        failed    |-> Having(items, {"rejected"})]
           /\ decisions' = IF ~created THEN decisions
                           ELSE decisions \cup {[gen |-> worker[w].gen, items |-> items,
                                                 returnFunds |-> returnFunds,
                                                 action |-> action]}
           /\ outbox' = IF created THEN outbox \cup {action} ELSE outbox
  /\ Goto(w, "release")
  /\ UNCHANGED <<lease, copies, ext, observations, reconciliations>>

----------------------------------------------------------------------------
(* Evidence: record_provider_result on a bound attempt by the provider     *)
(* integration.  The shipped runtime refuses attempts without a tenant, so *)
(* its caller is outside this repository.                                  *)

EvidenceArrives(a, r) ==
  /\ attempt[a] # None
  /\ Cardinality(observations) < MaxObservations
  /\ Recordable(TRUE, attempt[a], observations, a, r)
  /\ LET s == IF IsTerminal(attempt[a]) THEN attempt[a] ELSE Target(r)
     IN  /\ attempt' = [attempt EXCEPT ![a] = s]
         /\ observations' = observations \cup {Observation(a, r, 0)}
         /\ reconciliations' =
              reconciliations \cup {Reconciliation(a, ProviderStatus(r), s)}
  /\ UNCHANGED <<lease, copies, worker, ext, result>>

\* Verified finality with an identity, or any answer without one.
Answers(a) ==
  {r \in ProviderAnswers(ext[a]) :
     ~r.ids /\ (AcceptedFinality(r) \/ (r.id = None /\ ~r.verified))}

----------------------------------------------------------------------------
WorkerStep(w) ==
  \/ NotAdmitted(w) \/ Acquire(w)
  \/ NotDecided(w) \/ Decide(w)
  \/ Release(w) \/ Ack(w)

Next ==
  \/ \E w \in Workers, t \in Tasks : Receive(w, t)
  \/ \E w \in Workers : WorkerStep(w) \/ Crash(w) \/ Fails(w)
  \/ LeaseExpires
  \/ \E a \in Attempts : \E r \in Answers(a) : EvidenceArrives(a, r)

Spec == Init /\ [][Next]_vars

\* Fairness: some worker process is always running again after a crash, takes
\* the messages there are, and does not die at the same place for ever; a lease
\* nobody renews expires.
WorkerFairness ==
  /\ \A w \in Workers :
       /\ \A t \in Tasks : SF_vars(Receive(w, t))
       /\ SF_vars(Acquire(w)) /\ SF_vars(Decide(w))
       /\ WF_vars(WorkerStep(w) \/ Fails(w))
  /\ WF_vars(LeaseExpires)

FairSpec == Spec /\ WorkerFairness

----------------------------------------------------------------------------
(* Properties.                                                             *)

Decision == [gen: 1 .. MaxGen,
             items: [Attempts -> {"settled", "rejected", "retryable", "uncertain", "review"}],
             returnFunds: BOOLEAN, action: Action]

TypeOK ==
  /\ batch \in [status: BatchStatus, completed: SUBSET Attempts, failed: SUBSET Attempts]
  /\ lease \in [owner: Tasks \cup {None}, gen: 0 .. MaxGen, live: BOOLEAN]
  /\ lease.live => lease.gen # 0
  /\ instruction \in [Attempts -> {"pending", "validated", "completed", "failed"}]
  /\ attempt \in [Attempts -> Status \cup {None}]
  /\ observations \subseteq
       [attempt: Attempts, id: ObservationId, outcome: {"settled", "rejected", "uncertain"},
        verified: BOOLEAN, accepted: BOOLEAN, gen: {0}]
  /\ reconciliations \subseteq
       [attempt: Attempts, provider: {"settled", "rejected", "uncertain", "unknown"},
        internal: Status, status: {"matched", "unknown", "mismatch"}]
  /\ decisions \subseteq Decision
  /\ outbox \subseteq Action
  /\ copies \in [Tasks -> Nat]
  /\ worker \in [Workers -> [pc: {"idle", "admit", "process", "release", "ack"},
                             task: Tasks \cup {None}, gen: 0 .. MaxGen]]
  /\ \A w \in Workers : worker[w].pc # "idle" => worker[w].task \in Tasks
  /\ ext \in [Attempts -> Final]

\* A batch with a final result tells the truth: its completed and failed
\* amounts are exactly the payments the provider settled and rejected, no child
\* is missing, and its status says which of the two there are
\* (materialize_credit_instruction_finality, decide, the projection).
TerminalBatchIsTrue ==
  batch.status \notin Open =>
    /\ batch.completed = {a \in Attempts : ext[a] = "settled"}
    /\ batch.failed = {a \in Attempts : ext[a] = "rejected"}
    /\ batch.status = IF batch.failed = {} THEN "completed"
                      ELSE IF batch.completed = {} THEN "failed" ELSE "partial"

\* One lease generation makes at most one decision, although a redelivered
\* task replays the generation of the worker that died (acquire, decide).
OneDecisionPerGeneration == \A d, e \in decisions : d.gen = e.gen => d = e

\* The batch concludes once: there is a concluding decision exactly when the
\* batch has a final result, there is only one, and the source building block
\* is told one conclusion, that one.
ConcludesOnce ==
  LET concluding == {d \in decisions : d.action \in Concluding}
  IN  /\ concluding = {} <=> batch.status \in Open
      /\ \A d, e \in concluding : d = e
      /\ outbox \cap Concluding = {d.action : d \in concluding}

\* Decisions are made in lease order, each by the owner of the live lease: a
\* worker that was paused across a takeover writes nothing
\* (assert_current_owner).
DecisionsInLeaseOrder ==
  [][\A d \in decisions' \ decisions :
        /\ lease.live /\ d.gen = lease.gen
        /\ \A e \in decisions : e.gen < d.gen]_vars

\* A final result is never touched again, whatever evidence arrives later and
\* whatever messages are redelivered.
ResultIsFrozen ==
  [][batch.status \notin Open => UNCHANGED result]_vars

\* The batch keeps the promise of BatchPromise: one decision after another, each in
\* a later lease, and at most one conclusion, which is true, told and never revised.
Outcome == IF batch.status \in Open THEN [status |-> "open", completed |-> {}, failed |-> {}]
           ELSE batch

Promise == INSTANCE BatchPromise WITH
  Payments <- Attempts, Terms <- 1 .. MaxGen, books <- ext, outcome <- Outcome,
  told <- outbox \cap Concluding, terms <- {d.gen : d \in decisions}

KeepsPromise == Promise!Spec

\* What the tasks' module says (govstack_tasks.py:7-12): a received batch gets a
\* result.  Refuted on a database without NullableJoinLocks, where the processing
\* transaction raises each time and its message is acknowledged.
ReceivedIsDecided == <>(decisions # {})
----------------------------------------------------------------------------
(* The inductive strengthening of the safety properties above.             *)

\* Accepted evidence is true (record_provider_result's exact binding).
EvidenceInv ==
  \A o \in observations : o.accepted => ext[o.attempt] = o.outcome

\* Decisions are functions of their inputs, made under generations drawn.
DecisionInv ==
  \A d \in decisions : /\ d.action = OutcomeAction(d.items, d.returnFunds)
                       /\ d.gen <= lease.gen

\* The conjunction proved inductive in BulkBatchProofs.
IInv ==
  /\ TypeOK /\ EvidenceInv /\ DecisionInv
  /\ TerminalBatchIsTrue /\ OneDecisionPerGeneration /\ ConcludesOnce
=============================================================================
