--------------------------- MODULE ProviderRuntime ---------------------------
(***************************************************************************)
(* Asynchronous execution of payment attempts against a payment provider:  *)
(* Celery workers running orchestrate_attempt_task, the claim that fences  *)
(* them, the provider call made outside any transaction, and the periodic  *)
(* triage sweeps that move unresolved attempts to review.                  *)
(*                                                                         *)
(* Source: apps/payments/provider_runtime.py, payment_recovery.py,         *)
(*         provider_runtime_tasks.py, govstack_tasks.py (the sweeps).      *)
(*                                                                         *)
(* One action is one transaction (or one unlocked read, or one external    *)
(* call).  Workers die between any two of them; the broker then requeues   *)
(* the message (acks_late, reject_on_worker_lost).  A task that raises is  *)
(* acknowledged: nothing in these tasks retries.  Time is abstracted: a    *)
(* claim's five minutes may end at any moment (ClaimExpires), a due time   *)
(* has always come.                                                        *)
(***************************************************************************)
EXTENDS PaymentLifecycle

CONSTANTS
  Workers,      \* processes consuming the "payments" queue
  Sweepers,     \* processes running the triage tasks
  MaxMessages   \* bound on the copies of one attempt's message

ASSUME MaxMessagesAssumption == MaxMessages \in Nat

VARIABLES
  row,              \* row[a]: the PaymentAttempt and its PaymentExecutionIntent
  observations,     \* ProviderObservation rows
  reconciliations,  \* PaymentReconciliation rows
  messages,         \* messages[a]: copies of the task message in the broker
  worker,           \* worker[w]: where a worker is and its local variables
  sweep,            \* sweep[s]: the triage task's queryset and position
  ext,              \* ext[a]: the payment in the provider's own books
  submits           \* submits[a]: history, submit() calls made for a

vars == <<row, observations, reconciliations, messages, worker, sweep, ext, submits>>

Token == 0 .. MaxGen   \* a claim token is named by the generation that drew it

\* What the creators of enqueued attempts write: bulk instructions have
\* an amount but no tenant, P2G notifications an amount and the caller's
\* tenant and payment reference (either may be blank), reserved commands a
\* tenant but no amount.
Origins ==
  {o \in [tenant: BOOLEAN, amount: BOOLEAN, ids: BOOLEAN] :
     ~o.amount => o.tenant /\ ~o.ids}

NewRow(o) ==
  [tenant |-> o.tenant, amount |-> o.amount, ids |-> o.ids,
   status |-> "pending", evidence |-> "none", submitStarted |-> FALSE,
   token |-> 0, generation |-> 0, claimLive |-> FALSE]

Row == [tenant: BOOLEAN, amount: BOOLEAN, ids: BOOLEAN, status: Status,
        evidence: {"none", "ambiguous", "ids"}, submitStarted: BOOLEAN,
        token: Token, generation: 0 .. MaxGen, claimLive: BOOLEAN]

WorkerState == [pc: {"idle", "execute", "status_first", "claim", "call",
                     "finalize", "unavailable", "ack"},
                attempt: Attempts \cup {None}, poll: BOOLEAN,
                gen: 0 .. MaxGen, ids: BOOLEAN, result: Result \cup {None}]

Idle == [pc |-> "idle", attempt |-> None, poll |-> FALSE, gen |-> 0,
         ids |-> FALSE, result |-> None]

SweepState == [pc: {"idle", "uncertain", "retryable"}, todo: SUBSET Attempts,
               current: Attempts \cup {None}]

SweepIdle == [pc |-> "idle", todo |-> {}, current |-> None]

Init ==
  /\ row \in [Attempts -> {NewRow(o) : o \in Origins}]
  /\ observations = {}
  /\ reconciliations = {}
  /\ messages \in [Attempts -> 1 .. MaxMessages]
  /\ worker = [w \in Workers |-> Idle]
  /\ sweep = [s \in Sweepers |-> SweepIdle]
  /\ ext = [a \in Attempts |-> IF row[a].ids THEN "pending" ELSE "none"]
  /\ submits = [a \in Attempts |-> 0]

----------------------------------------------------------------------------
(* The task message.                                                       *)

Goto(w, pc) == worker' = [worker EXCEPT ![w].pc = pc]

Receive(w, a) ==
  /\ worker[w].pc = "idle"
  /\ messages[a] > 0
  /\ messages' = [messages EXCEPT ![a] = @ - 1]
  /\ worker' = [worker EXCEPT ![w] = [Idle EXCEPT !.pc = "execute", !.attempt = a]]
  /\ UNCHANGED <<row, observations, reconciliations, sweep, ext, submits>>

\* The task returned or raised: the message is acknowledged.
Ack(w) ==
  /\ worker[w].pc = "ack"
  /\ worker' = [worker EXCEPT ![w] = Idle]
  /\ UNCHANGED <<row, observations, reconciliations, messages, sweep, ext, submits>>

\* The worker is lost before the acknowledgement: the broker requeues.
Crash(w) ==
  /\ worker[w].pc # "idle"
  /\ messages' = [messages EXCEPT ![worker[w].attempt] = @ + 1]
  /\ worker' = [worker EXCEPT ![w] = Idle]
  /\ UNCHANGED <<row, observations, reconciliations, sweep, ext, submits>>

----------------------------------------------------------------------------
(* RecoverPaymentAttemptCommand.execute: an unlocked read picks the path.  *)

NothingToDo(r) == IsTerminal(r.status) \/ r.status = "review"

Execute(w) ==
  LET r == row[worker[w].attempt]
  IN  /\ worker[w].pc = "execute"
      /\ Goto(w, IF NothingToDo(r) THEN "ack"
                 ELSE IF r.status = "uncertain" THEN "status_first" ELSE "claim")
      /\ UNCHANGED <<row, observations, reconciliations, messages, sweep, ext, submits>>

\* status_first_recovery writes "uncertain" under the row lock.
StatusFirst(w) ==
  LET a == worker[w].attempt
  IN  /\ worker[w].pc = "status_first"
      /\ \/ /\ NothingToDo(row[a])
            /\ Goto(w, "ack")
            /\ UNCHANGED row
         \/ /\ ~NothingToDo(row[a])
            /\ row' = [row EXCEPT ![a].status = "uncertain"]
            /\ Goto(w, "claim")
      /\ UNCHANGED <<observations, reconciliations, messages, sweep, ext, submits>>

----------------------------------------------------------------------------
(* submit_or_poll: the claim transaction.                                  *)

Claimed(r) == r.token # 0 /\ r.claimLive

Claimable(r) == r.tenant /\ ~NothingToDo(r) /\ ~Claimed(r)

\* NOOP_TERMINAL or CLAIMED: the task returns and the message is acknowledged.
ClaimRefused(w) ==
  /\ worker[w].pc = "claim"
  /\ ~Claimable(row[worker[w].attempt])
  /\ Goto(w, "ack")
  /\ UNCHANGED <<row, observations, reconciliations, messages, sweep, ext, submits>>

\* No usable registration: ProviderUnavailable rolls the claim back.
ClaimUnresolved(w) ==
  /\ worker[w].pc = "claim"
  /\ Claimable(row[worker[w].attempt])
  /\ Goto(w, "unavailable")
  /\ UNCHANGED <<row, observations, reconciliations, messages, sweep, ext, submits>>

\* (Mutant.)  An earlier submit whose answer was lost is forgotten.
ShouldPollKnown(r) == r.ids \/ r.evidence = "ambiguous"

\* Poll when there is a provider identifier or an ambiguous outcome, or when
\* an earlier claim already admitted a submit; submit otherwise.
ShouldPoll(r) == r.ids \/ r.evidence = "ambiguous" \/ r.submitStarted

\* The first claim that may not poll starts the intent's only submit.
ClaimedRow(r, g) ==
  [r EXCEPT !.token = g, !.generation = g, !.claimLive = TRUE,
            !.submitStarted = r.submitStarted \/ ~ShouldPoll(r)]

NextGeneration(r) == r.generation + 1

ClaimGranted(w) ==
  LET a == worker[w].attempt
      g == NextGeneration(row[a])
  IN  /\ worker[w].pc = "claim"
      /\ Claimable(row[a])
      /\ g <= MaxGen
      /\ row' = [row EXCEPT ![a] = ClaimedRow(row[a], g)]
      /\ worker' = [worker EXCEPT ![w] = [@ EXCEPT
                      !.pc = "call", !.gen = g, !.ids = row[a].ids,
                      !.poll = ShouldPoll(row[a])]]
      /\ UNCHANGED <<observations, reconciliations, messages, sweep, ext, submits>>

\* claim_expires_at passes.
ClaimExpires(a) ==
  /\ row[a].claimLive
  /\ row' = [row EXCEPT ![a].claimLive = FALSE]
  /\ UNCHANGED <<observations, reconciliations, messages, worker, sweep, ext, submits>>

----------------------------------------------------------------------------
(* The provider call, outside any transaction.                             *)

\* The result substituted for an exception raised by the adapter.
RuntimeError(a, g, ids) ==
  [class |-> "ambiguous", verified |-> FALSE, retryable |-> FALSE,
   id |-> <<"runtime-error", a, g>>, ids |-> ids]

Answers(w, x) ==
  ProviderAnswers(x) \cup {RuntimeError(worker[w].attempt, worker[w].gen, worker[w].ids)}

\* The call returns, or answers with something that is not a ProviderResult:
\* TypeError, and the task ends with its claim still in place.
Returned(w, x) ==
  \/ \E r \in Answers(w, x) :
        worker' = [worker EXCEPT ![w] = [@ EXCEPT !.pc = "finalize", !.result = r]]
  \/ Goto(w, "ack")

Submit(w) ==
  LET a == worker[w].attempt
  IN  /\ worker[w].pc = "call" /\ ~worker[w].poll
      /\ submits' = [submits EXCEPT ![a] = @ + 1]
      /\ \E x \in (IF ext[a] = "none" THEN {"none", "pending"} \cup Final ELSE {ext[a]}) :
            /\ ext' = [ext EXCEPT ![a] = x]
            /\ Returned(w, x)
      /\ UNCHANGED <<row, observations, reconciliations, messages, sweep>>

Poll(w) ==
  /\ worker[w].pc = "call" /\ worker[w].poll
  /\ Returned(w, ext[worker[w].attempt])
  /\ UNCHANGED <<row, observations, reconciliations, messages, sweep, ext, submits>>

\* The provider's own processing of an accepted payment.
ProviderDecides(a) ==
  /\ ext[a] = "pending"
  /\ \E x \in Final : ext' = [ext EXCEPT ![a] = x]
  /\ UNCHANGED <<row, observations, reconciliations, messages, worker, sweep, submits>>

----------------------------------------------------------------------------
(* Recording a result.                                                     *)

\* record_provider_result on attempt a: one guarded transition that overwrites
\* the identifiers, ...
RecordedRow(a, r) ==
  IF IsTerminal(row[a].status) THEN row[a]
  ELSE [row[a] EXCEPT !.status = Target(r), !.ids = AcceptedFinality(r) /\ r.ids]

\* ... one observation and one reconciliation of the resulting status.
RecordEvidence(a, r, gen) ==
  /\ Recordable(row[a].amount, row[a].status, observations, a, r)
  /\ observations' = observations \cup {Observation(a, r, gen)}
  /\ reconciliations' =
       reconciliations \cup {Reconciliation(a, ProviderStatus(r), RecordedRow(a, r).status)}

Evidence(r, old) ==
  IF r.class = "ambiguous" THEN "ambiguous" ELSE IF r.ids THEN "ids" ELSE old

\* (Mutant.)  Whoever comes back may write.
OwnsAnyClaim(w) == TRUE

\* The token and the generation must still be the ones this worker drew.
OwnsClaim(w) ==
  LET r == row[worker[w].attempt]
  IN  r.token = worker[w].gen /\ r.generation = worker[w].gen

\* STALE_CLAIM, or the recording raises and the transaction rolls back: the
\* attempt, claim included, is left as it was and the message is acknowledged.
FinalizeRefused(w) ==
  LET a == worker[w].attempt
  IN  /\ worker[w].pc = "finalize"
      /\ \/ ~OwnsClaim(w)
         \/ ~Recordable(row[a].amount, row[a].status, observations, a, worker[w].result)
      /\ Goto(w, "ack")
      /\ UNCHANGED <<row, observations, reconciliations, messages, sweep, ext, submits>>

FinalizeClaimedResult(w) ==
  LET a == worker[w].attempt
      r == worker[w].result
  IN  /\ worker[w].pc = "finalize"
      /\ OwnsClaim(w)
      /\ RecordEvidence(a, r, worker[w].gen)
      /\ row' = [row EXCEPT ![a] = [RecordedRow(a, r) EXCEPT
                   !.evidence = Evidence(r, @), !.token = 0, !.claimLive = FALSE]]
      /\ Goto(w, "ack")
      /\ UNCHANGED <<messages, sweep, ext, submits>>

\* ProviderRuntime.unavailable: at most one configuration observation, written
\* whether or not some worker holds the claim.
UnavailableResult(a) ==
  [class |-> "ambiguous", verified |-> FALSE, retryable |-> FALSE,
   id |-> <<"configuration-unavailable", a, 0>>, ids |-> FALSE]

UnavailableSkipped(w) ==
  LET a == worker[w].attempt
  IN  /\ worker[w].pc = "unavailable"
      /\ \/ IsTerminal(row[a].status)
         \/ ~Recordable(row[a].amount, row[a].status, observations, a, UnavailableResult(a))
      /\ Goto(w, "ack")
      /\ UNCHANGED <<row, observations, reconciliations, messages, sweep, ext, submits>>

UnavailableRecorded(w) ==
  LET a == worker[w].attempt
  IN  /\ worker[w].pc = "unavailable"
      /\ ~IsTerminal(row[a].status)
      /\ RecordEvidence(a, UnavailableResult(a), 0)
      /\ row' = [row EXCEPT ![a] = RecordedRow(a, UnavailableResult(a))]
      /\ Goto(w, "ack")
      /\ UNCHANGED <<messages, sweep, ext, submits>>

----------------------------------------------------------------------------
(* triage_govstack_uncertain_attempts, triage_govstack_retryable_attempts. *)

\* The queryset is evaluated once, without locks; its rows grow stale.
SweepRead(s, status) ==
  /\ sweep[s].pc = "idle"
  /\ \E due \in SUBSET {a \in Attempts : row[a].status = status} :
        /\ due # {}
        /\ sweep' = [sweep EXCEPT ![s] = [@ EXCEPT !.pc = status, !.todo = due]]
  /\ UNCHANGED <<row, observations, reconciliations, messages, worker, ext, submits>>

\* reconcile(attempt, "unknown") compares the stale status of the object read.
SweepReconcile(s, a) ==
  /\ sweep[s].pc = "uncertain" /\ sweep[s].current = None /\ a \in sweep[s].todo
  /\ reconciliations' = reconciliations \cup {Reconciliation(a, "unknown", "uncertain")}
  /\ sweep' = [sweep EXCEPT ![s].current = a]
  /\ UNCHANGED <<row, observations, messages, worker, ext, submits>>

\* The retryable sweep reconciles nothing.
SweepNext(s, a) ==
  /\ sweep[s].pc = "retryable" /\ sweep[s].current = None /\ a \in sweep[s].todo
  /\ sweep' = [sweep EXCEPT ![s].current = a]
  /\ UNCHANGED <<row, observations, reconciliations, messages, worker, ext, submits>>

\* apply_outcome(review) under the row lock; it clears the identifiers.
SweepApply(s) ==
  LET a == sweep[s].current
      rest == sweep[s].todo \ {a}
  IN  /\ a # None
      /\ Applicable(row[a].status, "review")
      /\ row' = IF IsTerminal(row[a].status) THEN row
                ELSE [row EXCEPT ![a] = [@ EXCEPT !.status = "review", !.ids = FALSE]]
      /\ sweep' = [sweep EXCEPT ![s] = IF rest = {} THEN SweepIdle
                                       ELSE [@ EXCEPT !.todo = rest, !.current = None]]
      /\ UNCHANGED <<observations, reconciliations, messages, worker, ext, submits>>

\* InvalidPaymentTransition (review -> review) fails the task, or its worker
\* is lost: the rest of the queryset waits for a later sweep.
SweepAborts(s) ==
  /\ sweep[s].pc # "idle"
  /\ sweep' = [sweep EXCEPT ![s] = SweepIdle]
  /\ UNCHANGED <<row, observations, reconciliations, messages, worker, ext, submits>>

----------------------------------------------------------------------------
WorkerStep(w) ==
  \/ Execute(w) \/ StatusFirst(w)
  \/ ClaimRefused(w) \/ ClaimUnresolved(w) \/ ClaimGranted(w)
  \/ Submit(w) \/ Poll(w)
  \/ FinalizeRefused(w) \/ FinalizeClaimedResult(w)
  \/ UnavailableSkipped(w) \/ UnavailableRecorded(w)
  \/ Ack(w)

SweepStep(s) ==
  \/ \E a \in Attempts : SweepReconcile(s, a) \/ SweepNext(s, a)
  \/ SweepApply(s)

Next ==
  \/ \E w \in Workers, a \in Attempts : Receive(w, a)
  \/ \E w \in Workers : WorkerStep(w) \/ Crash(w)
  \/ \E s \in Sweepers, status \in {"uncertain", "retryable"} : SweepRead(s, status)
  \/ \E s \in Sweepers : SweepStep(s) \/ SweepAborts(s)
  \/ \E a \in Attempts : ClaimExpires(a) \/ ProviderDecides(a)

Spec == Init /\ [][Next]_vars

\* setup_periodic_tasks makes Beat send the triage tasks by their dotted path; the
\* workers know them under the names they are registered with, and discard a
\* message under any other name.
SentName(status) == <<"apps.payments.govstack_tasks", "triage", status>>
RegisteredName(status) == <<"payments", "triage", status>>

Scheduled == {status \in {"uncertain", "retryable"} : SentName(status) = RegisteredName(status)}

\* Fairness: workers take messages and go on with them, claims expire, the provider
\* decides, a triage task that Beat reaches is sent again and again, and one that runs
\* does not die at the same place for ever.
WorkerFairness ==
  /\ \A w \in Workers :
       /\ WF_vars(\E a \in Attempts : Receive(w, a))
       /\ WF_vars(WorkerStep(w))
  /\ \A a \in Attempts : WF_vars(ClaimExpires(a)) /\ WF_vars(ProviderDecides(a))

SweepFairness ==
  \A s \in Sweepers :
     /\ \A status \in Scheduled : SF_vars(SweepRead(s, status))
     /\ \A a \in Attempts : SF_vars(SweepReconcile(s, a)) /\ SF_vars(SweepNext(s, a))
     /\ SF_vars(SweepApply(s))

FairSpec == Spec /\ WorkerFairness /\ SweepFairness

----------------------------------------------------------------------------
(* Properties.                                                             *)

TypeOK ==
  /\ row \in [Attempts -> Row]
  /\ observations \subseteq
       [attempt: Attempts, id: ObservationId, outcome: {"settled", "rejected", "uncertain"},
        verified: BOOLEAN, accepted: BOOLEAN, gen: 0 .. MaxGen]
  /\ reconciliations \subseteq
       [attempt: Attempts, provider: {"settled", "rejected", "uncertain", "unknown"},
        internal: Status, status: {"matched", "unknown", "mismatch"}]
  /\ messages \in [Attempts -> Nat]
  /\ worker \in [Workers -> WorkerState]
  /\ \A w \in Workers :
       /\ worker[w].pc # "idle" => worker[w].attempt \in Attempts
       /\ worker[w].pc \in {"call", "finalize"} => worker[w].gen \in 1 .. MaxGen
       /\ worker[w].pc = "finalize" => worker[w].result \in Result
  /\ sweep \in [Sweepers -> SweepState]
  /\ ext \in [Attempts -> {"none", "pending"} \cup Final]
  /\ submits \in [Attempts -> Nat]

\* No attempt is ever submitted to the provider twice, whatever workers die,
\* messages are redelivered, claims expire and are taken over, or results are
\* lost (submit_or_poll, finalize_claimed_result).
AtMostOneSubmit == \A a \in Attempts : submits[a] <= 1

\* An attempt is settled (rejected) exactly when one verified, accepted
\* observation says so: local validation, sweeps and unverified answers never
\* establish finality, and accepted evidence is never contradicted by the row
\* (record_observation, apply_outcome).
FinalityIsEvidenced ==
  \A a \in Attempts :
     LET accepted == {o \in observations : o.attempt = a /\ o.accepted}
     IN  /\ \A o \in accepted :
               o.verified /\ o.outcome \in Final /\ o.outcome = row[a].status
         /\ \A o, p \in accepted : o = p
         /\ row[a].status \in Final => accepted # {}

\* An attempt recorded settled or rejected is so in the provider's books.
FinalityIsTrue ==
  \A a \in Attempts : row[a].status \in Final => ext[a] = row[a].status

\* One claim generation leaves at most one provider observation, even when the
\* worker that drew it and the worker that took it over both come back.
OneResultPerClaim ==
  \A o, p \in observations :
     o.attempt = p.attempt /\ o.gen = p.gen /\ o.gen # 0 => o = p

\* Every change of an attempt's status is an edge of ALLOWED_TRANSITIONS,
\* although status_first_recovery assigns the status without transition_to.
StatusMovesAllowed ==
  [][\A a \in Attempts :
        row'[a].status # row[a].status =>
          row'[a].status \in ALLOWED_TRANSITIONS[row[a].status]]_vars

\* A provider observation is only ever added by the newest claim of its
\* attempt, so evidence arrives in claim order: a stale completion writes
\* nothing (finalize_claimed_result's token and generation fence).
EvidenceInClaimOrder ==
  [][\A o \in observations' \ observations :
        o.gen # 0 => /\ o.gen = row[o.attempt].generation
                     /\ \A p \in observations : p.attempt = o.attempt => p.gen < o.gen]_vars

\* (Refuted.)  "Reconcile unresolved GovStack payment attempts and route unknown
\* outcomes to review": an uncertain attempt does not stay uncertain.
UncertainIsTriaged ==
  \A a \in Attempts : row[a].status = "uncertain" ~> row[a].status # "uncertain"

\* (Refuted.)  "An unresolved intent or provider correlation always drives
\* authoritative status polling before any new submit": a payment the provider
\* already knows is never submitted.
NoSubmitOfKnownPayment ==
  [][\A a \in Attempts : submits'[a] # submits[a] => ext[a] = "none"]_vars

\* The verdict a row records: a final status, else none.
Verdict == [a \in Attempts |-> IF row[a].status \in Final THEN row[a].status ELSE "open"]

Promise == INSTANCE PaymentPromise WITH books <- ext, verdict <- Verdict

\* Workers, claims, sweeps and redeliveries implement the promise: one submit, one
\* decision, one verdict that is the decision and stays
\* (submit_or_poll, finalize_claimed_result, apply_outcome).
KeepsPromise == Promise!Spec

----------------------------------------------------------------------------
(* The inductive strengthening of the safety properties above.             *)

InCall(w) == worker[w].pc \in {"call", "finalize"}

Submitting(w) == worker[w].pc = "call" /\ ~worker[w].poll

\* A claim generation belongs to one worker, and leaves no observation before
\* that worker finalizes it (submit_or_poll, finalize_claimed_result).
ClaimInv ==
  /\ \A w \in Workers :
       InCall(w) =>
         /\ worker[w].gen <= row[worker[w].attempt].generation
         /\ \A o \in observations :
              o.attempt = worker[w].attempt => o.gen # worker[w].gen
  /\ \A v, w \in Workers :
       InCall(v) /\ InCall(w) /\ worker[v].attempt = worker[w].attempt
         /\ worker[v].gen = worker[w].gen => v = w
  /\ \A o \in observations : o.gen <= row[o.attempt].generation

\* submit_started_at is set before, and for ever after, the only submit.
SubmitInv ==
  /\ \A a \in Attempts : ~row[a].submitStarted => submits[a] = 0
  /\ \A w \in Workers :
       Submitting(w) => /\ submits[worker[w].attempt] = 0
                        /\ row[worker[w].attempt].submitStarted
  /\ \A v, w \in Workers :
       Submitting(v) /\ Submitting(w) /\ worker[v].attempt = worker[w].attempt => v = w

\* A verified finality on its way to the database is true, and stays true.
TruthInv ==
  \A w \in Workers :
     worker[w].pc = "finalize" /\ AcceptedFinality(worker[w].result)
       => ext[worker[w].attempt] = worker[w].result.class

\* Nothing dead-letters an attempt: the status is in the table only.
NeverDeadLetter == \A a \in Attempts : row[a].status # "dead_letter"

\* The conjunction proved inductive in ProviderRuntimeProofs.
IInv ==
  /\ TypeOK /\ ClaimInv /\ SubmitInv /\ TruthInv /\ NeverDeadLetter
  /\ AtMostOneSubmit /\ FinalityIsEvidenced /\ FinalityIsTrue /\ OneResultPerClaim

=============================================================================
