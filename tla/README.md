# CivicOS platform: TLA+ verification

CivicOS is a Django/Wagtail platform for municipalities and non-profits. Web requests run in one
database transaction each (`ATOMIC_REQUESTS`), Celery workers and Beat run the background tasks over
Redis, most of them with `acks_late` and `reject_on_worker_lost`, and PostgreSQL is the only shared state. Its
hard behaviour is therefore the same everywhere: transactions of several processes interleave between two
locks, a task is delivered again (or, acknowledged early, lost) after its worker died, an external party is called between two
transactions, and a row read without a lock is stale when it is used.

This directory holds TLA+ models of the parts where that matters most, the TLC configurations that
check them, and TLAPS proofs. `PROJECT.json` lists components, runs, mutants, findings, hazards and
theorems, and maps every definition to the lines it models.

## 1. Inventory

Paths are below `src/apps`. "Modelled" names the module.

| Component | State it keeps | Operations | Interacts with | Hard behaviour | Correct when |
|---|---|---|---|---|---|
| Payment lifecycle and evidence (`payments/govstack_failure_services.py`, `govstack_provider.py`, `govstack_models.py`): **PaymentLifecycle** | PaymentAttempt, ProviderObservation, PaymentReconciliation, CreditInstruction | apply_outcome, record_provider_result, record_observation, reconcile, materialize_credit_instruction_finality | called by runtime, sweeps, batch | contradicting, unverified or unidentified answers | final status only on one accepted, verified observation |
| Provider runtime (`payments/provider_runtime.py`, `payment_recovery.py`, `provider_runtime_tasks.py`): **ProviderRuntime** | claim token, generation and expiry; PaymentExecutionIntent | execute, status_first_recovery, submit_or_poll, finalize_claimed_result | provider adapter between two transactions; Celery messages | claim expiry and takeover, redelivery, worker loss after the call | one submit per attempt; only the claim's owner records |
| Attempt triage sweeps (`payments/govstack_tasks.py`): **ProviderRuntime** | none | triage_govstack_uncertain_attempts, triage_govstack_retryable_attempts | rows of the runtime | stale querysets | settled attempts are left alone; that uncertain ones reach review is promised and refuted (§4) |
| Bulk batches (`payments/govstack_tasks.py`, `govstack_batch_*.py`): **BulkBatch** | batch, BatchLease, instructions, decisions, callback outbox | process_bulk_payment_batch: acquire, project, decide, release | runtime's evidence, callback outbox | tasks outliving a five-minute lease, redelivery with a live lease, locks the database refuses | one truthful conclusion, decisions in lease order; that a received batch is decided is refuted (§4) |
| Callback outbox (`payments/govstack_tasks.py`, `govstack_failure_services.py`, `management/commands/setup_periodic_tasks.py`): **CallbackOutbox** | CallbackDelivery, PrepaymentValidationRequest | validate_prepayment_async, queue_callback, _post_callback, record_callback_result, replay sweep | receivers over HTTP, batch decisions | lost answers, concurrent posts of a row, worker loss before queueing | delivered means received; exact retry budget; that nothing waits for ever is refuted (§4) |
| Appointment booking (`appointments/services/booking.py`, `slots.py`, `govstack_appointment.py`, `govstack_event.py`, `tasks.py`): **Booking** | Slot, Booking, ClientNoShowRecord | create, confirm, reject, cancel, reschedule, complete, no-show; block/cancel slot; event modify/delete; two periodic tasks | GovStack Scheduler API, portal, staff | row locks in several orders, unlocked reads, statuses rewritten by staff | exact spaces, no overbooking, requests that keep the order of the locks never deadlock among themselves |
| Payment command boundary (`payments/payment_command_*.py`): **PaymentIntake** | command, its attempt, outbox row, acknowledgement | reserve, publish, consume, acknowledge | API, runtime | replays and conflicts, on_commit hooks lost with their process, redelivery | a task is handed over at most once; an answer is true |
| GovStack payment API (`payments/govstack_views.py`, `govstack_services.py`): **PaymentIntake** | batches, beneficiaries, validations | receive_batch, create_transfer_request, mark_bill_paid; register/update beneficiaries | batches, outbox, commands | duplicate RequestIDs and BatchIDs | dispatch only after commit; one batch per id |
| Vouchers (`payments/govstack_services.py`) | voucher, reservation | preactivate, activate, redeem, cancel | API | none: each operation is one locked row | not modelled |
| P2G bills (`payments/govstack_services.py`): **PaymentIntake** | bill, payment notification | inquire, transfer request, mark paid | API, runtime | two notifications of one bill | who is told "received" has the bill paid under its own payload |
| Stripe payments (`payments/tasks.py`, `gateways/`, `views/`): **StripeLedger** | PaymentIntent, Payment, Donation, RecurringGiftPlan, Refund, WebhookEvent | create, cancel; webhook handlers; refund; cancel plan | Stripe, receipts | duplicated and reordered events, dispatches and hooks lost, refunds in flight | the tables agree with each other and with Stripe |
| Receipts (`payments/tasks_receipts.py`, `receivers.py`): **DonationReceipts** | OfficialDonationReceipt, its document and delivery mark | on_donation_completed, generate_and_send_receipt, generate_annual_receipts | Stripe payments, mail | the task killed between mail and mark; the hook racing the annual run | delivered means mailed; receipts cover eligible donations |
| Scheduler alerts (`appointments/services/scheduler_runtime.py`, `govstack_alert_schedule.py`, `scheduler_tasks.py`, `tasks.py`): **AlertDelivery** | alert schedule and its generation, recipient deliveries, their outbox rows | create, modify, cancel, re-arm, delete; dispatch; publish; claim, succeed, fail, reap, acknowledge, replay | broker, HTTP receivers, operators | a fence against work in flight, hand-overs that fail or are taken over, attempt leases | nothing of an earlier generation goes on; delivered means received; untried work is carried |
| Documents (`documents/services`, `tasks.py`): **Documents** | Document, versions, legal hold, the object storage | upload, confirm, scan, new version, hold, disposal, purge, clean-up of abandoned uploads | ClamAV, storage, exports | storage outside every transaction, a presigned POST used again, copies of a scan, stale snapshots | an active document has its file; what is infected stays out of active/ but for one window; a dispatched document is judged once |
| Consent records (`consent/services.py`, `models.py`, `govstack_views.py`): **Consent** | ConsentRecord, its signed revisions | grant, withdraw, right_to_be_forgotten | API, portal | statements that wait for a row and check it again, the unique index on the current record | one current record per history, answers true during the request |
| Data exports (`consent/services.py`, `tasks.py`, `views.py`): **ConsentExport** | DataExportRequest, its document and token | request_export, process_data_export, download, cleanup_export_files | documents, mail, storage | a task acknowledged early, its retries and time-outs; rows written long after they were read | an archive is handed out once, what can be downloaded is there |
| Consent webhooks, policies, agreements (`consent/tasks.py`, `models.py`) | Webhook, Policy, DataAgreement and their revisions | dispatch_consent_webhook; create, update, delete | receivers | retries with a shared status | not modelled |
| Volunteer shifts (`volunteers/services/scheduling.py`, `admin.py`): **VolunteerShifts** | Shift, ShiftBooking with its waitlist position | book, cancel with promotion, no-show, complete, cancel the shift; the shift's form | portal, staff, hours | unlocked checks, attendance marks that lock the booking only, forms that save a row read before | no place too many, none free while somebody waits, first come first served |
| Volunteer hours (`volunteers/services/hours.py`): **VolunteerHours** | HoursLog, the stored total, RecognitionMilestone | log, approve, reject; recompute and milestones after the commit; two forms | shifts, mails | totals read before a commit and written after it, hooks lost, stale forms | the total is the sum, no threshold is passed by |
| Honoraria (`volunteers/services/honoraria.py`, `models.py`): **Honoraria** | Honorarium with its T4A flag | create, edit | payments ledger, staff | sums read without a lock | the year stays below the hard block and is flagged from the T4A threshold on |
| Volunteer applications and screening (`volunteers/services/applications.py`) | application, screening record | apply, review, withdraw | notifications | none: one row under its lock and a transition table | not modelled |
| Workflows (`workflows`, `forms`, `portal`) | service request, work item | submit, assign, transition | notifications | stale transitions | only allowed transitions |
| Notifications, audit, reports; CMS, back office | append-only records, pages | write, list | all | none of their own | not modelled: no protocol beyond the callers' |

## 2. Modules and how they correspond to the code

One action is one transaction, one unlocked read or one external call, never less; where a transaction
takes several row locks one after another and the order matters (Booking), taking a lock is an action
and the commit is another (the rows of one UPDATE are locked one by one too, and held to the commit); where a statement waits for a row and checks it again (Consent), a statement is
two. Time is abstracted: a lease or claim may end at any moment, a backoff may
have elapsed or not. Names follow the source.

* **PaymentLifecycle** has no variables. It holds the status graph (`ALLOWED_TRANSITIONS`), the
  normalisation of a provider's answer (`FinalOutcome`, `Verified`, `RecordedId`), acceptance of
  finality (`AcceptedFinality`: verified, identified, exactly bound), uniqueness of observations
  (`Insertable`), the target status of an answer (`Target`) and when the recording transaction raises
  (`Recordable`). ProviderRuntime and BulkBatch extend it.
* **ProviderRuntime**: `row[a]` is the attempt with its intent, `worker[w]` a Celery process with its
  local variables, `messages` the broker's copies, `sweep[s]` a triage task with its stale queryset,
  `ext` the provider's own books and `submits` a history count. `execute` and
  `status_first_recovery` are the unlocked decision and its transaction; the claim, the external call
  and the finalisation are three steps. `ClaimExpires` may come at any time, `Crash` between any
  two steps and the message then returns. A task that raises is acknowledged, because nothing in
  these tasks retries. The provider may answer anything: unverified, anonymous or contradicting results
  included, but a *verified* finality is true (see assumptions). Beat's schedule is the set `Scheduled` of the
  triage tasks whose message carries the registered name (`SentName`, `RegisteredName`): it is empty. Anybody may
  still send a triage task by hand, so its steps stay in the model and no fairness is assumed of them.
* **BulkBatch**: one batch (batches share no rows) with its lease, instructions, evidence, decisions and
  outbox. `Acquire` is the first transaction, `Decide` the whole second one (lease check, projection,
  policy, decision, sums, outbox row), `Release` the last. Evidence arrives between any two. The second
  transaction locks the instructions together with their nullable `payment_attempt`: `NullableJoinLocks` says whether the
  database grants that lock. PostgreSQL refuses it, so there every processing raises (`MayRaise`, `Fails`) and nothing is
  decided; a database without row locks, like the SQLite of the unit tests, ignores the clause. The safety properties are proved for both values.
* **CallbackOutbox**: the validation task (`ReceiveValidation`, `Validate`, `QueueCallback`), the post
  (`PostCallback`: the receiver may get it and its answer be lost), the recorded result, the sweep with
  its fixed queryset, and the schedule: Beat sends a message by name (`ScheduledName`), and a name no task is
  registered under is discarded. `TaskFairness` is that of the running tasks, `BeatFairness` that of the schedule as the
  repository makes it.
* **Booking**: `slot` (status, spaces_used, capacity), `booking` and `request`, a request in progress
  with its unlocked reads and its row locks. A request starts (unlocked reads), locks its booking (checks
  of the transition), locks its slots (checks of capacity and of active bookings for a
  creation) and, where it counts a no-show or a late cancellation, the citizen's ClientNoShowRecord (`LockRecord`), and
  commits; `Abort` is any refusal, error or lost connection and rolls back. Creations and moves lock their slots in
  ascending order. `PastStarts` and `CommitPast` are the one UPDATE of `mark_past_slots_completed`: it locks its
  rows in the order it meets them, any order here, and holds them to the commit. The no-show record comes after
  the slot, except where a booking is completed: its slot is then locked last, and only if the call reads or drops the
  exclusive flag. Operations that lock a single row (confirm, block, cancel slot, event status and capacity)
  are one action. `available` and `partial` are "open"; `blocked`, `cancelled` and `completed` are
  "closed": no operation of the model distinguishes them further, except that blocking or cancelling a
  slot refuses a completed one, which would leave it closed anyway.

* **PaymentPromise** is the abstract specification of the runtime: submit at most once, the provider decides
  once, the verdict recorded is the provider's and stays. ProviderRuntime implements it through
  `submits`, the provider's books and the final part of the attempt's status (`Promise`, `KeepsPromise`).
* **BatchPromise** is the abstract specification of a batch: decisions under later and later terms, each of which leaves
  the batch open or concludes it with the one true result, which the payer is told once. BulkBatch
  implements it with its lease generations as terms, the result it shows once it is no longer open, and the conclusions
  in its callback outbox.
* **PaymentIntake**: `PostBulk` is the whole POST of a bulk batch, one transaction: command, attempt, intent
  and outbox row, then the batch, or its refusal, which leaves the command. Its `on_commit` hooks are the
  queue `server[s]`, run one per step and lost by `ServerCrash`. `Publish`, `EnqueueConsumer`, `AcknowledgeCommand`
  and `ScheduleOrchestration` are the hand-over of a command, `SendTask` the dispatch of a batch or a
  notification; `sent` counts the messages sent to each task, `answered` remembers what was said to whom.
  `Publish` and the consumer lock an outbox row together with the nullable `command__attempt`; on PostgreSQL that raises,
  and of the behaviours only those are left in which the server is lost before each `Publish`.
* **StripeLedger** (with **DonationReceipts**, which it extends): Stripe's books and events on one side, the
  tables on the other. `Emit` stores an event and its message, which may be lost; `Handle` is the handler
  with `processed = True` in one transaction, `RunHook` what follows the commit. `OneTime` gifts get a payment and
  a donation; a gift the donor asked to repeat (`Recurring`) gets a payment only, and its event is processed. Events are handled in
  any order and by two workers at once. A refund is the row (`RefundConfirm`), the call
  (`RefundAtStripe`: refunded with or without an answer, or refused) and its record.
  DonationReceipts has the issuing hook, the annual run as its three reads and writes, and the
  delivery task in its phases.
* **Documents**: rows under their locks, `objects` the storage, `infected` those whose last content ClamAV finds a
  threat in. `BrowserPost` may come any number of times while the presigned POST is open, whatever has become of the
  row, and replaces the object; `Threats` are the documents for which a browser may post an infected file. `MarkActive`
  is the promotion (copy, repoint, flip in one transaction), `CopyOnly` the promotion whose transaction fails after the
  copy, `Unlink` what follows the commit. `scan_document` retries through `messages`, also when it finds no row;
  `OnFailure` is the task's `on_failure`, which may fail itself. `CleanupSnapshot`, `CleanupPurge`, `CleanupSelect` (the
  rows still pending) and `CleanupDelete` (those rows by id, whatever they are by then) are the clean-up, `HardDelete`,
  `EraseObject` and `RecordPurge` the purge: two jobs that leave the row unlocked while they touch the storage.
  Three histories name the exceptions the properties make, each of them a finding: `tardy`, a document confirmed or
  deleted after its upload window, which the clean-up may have read before; `swapped`, one posted again between a clean
  scan and its copy; `unhandled`, one whose failure handler failed.

* **AlertDelivery**: `schedule` with its generation, `delivery` and `outbox` rows under
  `<<generation, recipient>>`. `Dispatch` is the admission of the eligible recipients, one transaction; a
  publisher's `ClaimOutbox`, `Enqueue` (the broker may have a message whose sending failed) and `MarkOutbox` are
  three steps, so are a worker's `Claim`, `Read` and `Post` with `Record` as a fourth. `Fence` is what modifying,
  cancelling and re-arming do to every open row in the transaction of the change. The alert a worker posts is
  read after its claim, hence `own`. The tasks without arguments (dispatch, publish, reap) may run at any
  time; nothing in the repository schedules the last two, which the documentation names as open.
  `revived` remembers the dead letters an operator replayed although their generation was over.

* **Consent**: one citizen and one agreement. `record` holds the committed rows, `request[r]` a web request
  with its transaction: `held` are the rows it has written and locked, `made` the row it has inserted, and both
  take effect at its `Commit*`. Each locking statement reads what is committed when it starts (`LookForGrant`,
  `Find`, `LookForCurrent`, `LookForWinner`) and then waits for the row and checks it again (`RelookForGrant`,
  `Withdraw`, `Archive`, `TakeWinner`), which is READ COMMITTED. `Insert` waits at the unique index for the
  transaction that has inserted or archived a current row, and loses to it or goes on. `Collect` and
  `Delete` are the read of an erasure and its deletion. `saw` and `known` remember what was committed
  during a request, for the properties only. `Abort` is a lost connection, a time-out or a deadlock.
* **ConsentExport**: `export[e]` is the request with its document and token, `task[e]` process_data_export,
  `sweep` the daily clean-up. Both run in autocommit, so each read and each write is an action. The hook
  may be lost (`HookLost`), the task lost, timed out or retried at any step. `served` counts the downloads.

* **VolunteerShifts**: each service locks the row it decides about and checks again what it checked before, so
  it is one action; only book_shift is two (`BookShift`, `BookCommits`), because it does not repeat the
  checks of the start and of the application. The form of a shift is `FormReads` and `FormSaves`: it writes the whole row,
  `is_cancelled` as it was read. `ahead[v]` remembers who stood before v on the waitlist and still waits,
  `sizes` and `closed` what staff have made of the capacity and the waitlist, `stale` a form that has written back a changed `is_cancelled`.
* **VolunteerHours**: `approval[a]` is a request that approves, with its locals: the total it reads before it
  commits (`ApproveHours`, `ApprovalCommits`), the hook's sum under the lock of the profile and its update
  (`SumHours`, `StoreTotal`), and one `RecordMilestone` per threshold between the two. `WorkerLost` comes
  between any two steps. The forms of a log and of the profile are two steps each. `unsummed` and `lost`
  remember what nobody is left to recompute or to record.
* **Honoraria**: one volunteer and one year. A request cleans a row (`CreateHonorarium`, `EditHonorarium`: the
  sum of the others is read then) and writes it later (`WriteRow`); a creation holds the lock of the profile in
  between, an edit holds none. `apart` rows are expenses and other years; an edit can move a row in
  or out. `raced` remembers an edit that overlapped another write.

`MC*` modules add TLC's symmetry and menus. Four of them compose modules or kinds of behaviour that share no
variable and no row, and check one per behaviour, chosen by `part`: MCPayments (BulkBatch, CallbackOutbox,
StripeLedger), MCHandover (AlertDelivery, PaymentIntake), MCPeople (Consent, ConsentExport and the volunteer modules) and
MCBooking. MCBulkBatch and MCCallbackOutbox serve the two runs that need another instance of those modules. `*Proofs` modules
hold theorems and proofs;
BulkProofs (BulkBatch, CallbackOutbox), PeopleProofs (Consent, ConsentExport, VolunteerHours, VolunteerShifts) and
MoneyProofs (StripeLedger with DonationReceipts, Honoraria) each prove about several modules, which have no variable
in common.

## 3. Runs

| Run | Instance | Shows |
|---|---|---|
| provider | 1 attempt, 2 workers, 1 sweeper, 2 message copies, 2 claims | at most one submit (`AtMostOneSubmit`), a recorded finality is true (`FinalityIsTrue`), evidence in claim order (`EvidenceInClaimOrder`); the runtime refines PaymentPromise (`KeepsPromise`) |
| payments | a batch: 2 instructions, 2 workers, 2 copies, 2 leases, slow tasks and exceptions; or 2 callbacks, 1 worker, 1 sweeper, budget 3; or Stripe: a gift with two refunds, a fee, a plan, two renewals or a gift (one-time or to be repeated) with receipts, 2 webhook workers | a final result is true (`TerminalBatchIsTrue`), decisions in lease order (`DecisionsInLeaseOrder`), a batch refines BatchPromise (`KeepsPromise`); delivered means received, exact retry budget (`BudgetIsExact`); the books agree (`BooksAgree`), processed events are recorded, refunds covered and true, a delivered receipt was mailed (`SentIsMailed`) |
| handover | alerts: 1 recipient, 2 workers, 2 publishers, 2 generations, 1 row at a time, 2 attempts, 2 publications, 3 claims, 2 copies; or admission: 3 bulk requests (two share an id, two a batch), 2 notifications of one bill, 2 servers, 2 consumers | a fence leaves no earlier work (`SupersededIsQuiet`), delivered means received, untried work is carried (`WorkIsCarried`), a live lease is its owner's (`LeaseIsExclusive`); at most one hand-over (`HandedOverOnce`), true answers (`AnswersAreTrue`) |
| booking | 2 slots (1 place; 1 or 2 places), 2 bookings of a citizen, 2 requests: calls and staff edits, or calls at the end of a day | spaces exact (`SpacesAreExact`), never overbooked, rescheduling moves, outcomes final; requests that lock in order make no circle among themselves (`OrderedNeverCircle`) |
| documents | a document, 2 scan workers, 2 purges; one that may be infected; a document and its version with the clean-up | an active document has its file, what is infected gets under active/ in one way only (`FilesAreKept`); judged exactly once (`JudgedOnce`) |
| people | 3 consent requests, 2 revisions, 3 records; or 2 exports with 2 retries; or a shift, 4 volunteers, 1 or 2 places; or 3 logs, 2 approvals, 2 thresholds; or 3 payments, 2 requests | one current record (`OneCurrent`), answers that were true during the request (`AnswersAreTrue`); an archive is handed out once (`ServedOnce`), what can be downloaded is there (`ReadyIsWhole`); places are shared (`PlacesAreShared`, `WaitlistInOrder`), a cancelled shift is empty (`CancelledIsEmpty`); totals and milestones (`TotalIsApproved`, `CrossedIsMarked`); thresholds of the tax agency (`CeilingHolds`) |
| provider_resubmit | 1 attempt, 1 worker | refutes `NoSubmitOfKnownPayment` |
| provider_triage | 1 attempt, 1 worker, 1 sweeper, the repository's schedule | refutes `UncertainIsTriaged` |
| bulk_progress | 1 instruction, 2 tasks, fair workers, no other exception, a database that refuses the lock | refutes `ReceivedIsDecided` |
| callback_schedule | 1 callback, 1 worker, 1 sweeper, the repository's schedule | refutes `QueuedIsSettled` |
| booking_deadlock | that of booking | refutes `NoCircularWait` |
| documents_unscanned | that of documents | refutes `ActiveIsScanned` |

**Bounds.** `MaxGen` (claims or leases), `MaxMessages`/`MaxCopies` (message copies), `MaxObservations`,
`MAX_CALLBACK_ATTEMPTS`, the sets of processes and rows. Two generations are the smallest number with a
takeover and a late owner. Two copies of a message are the smallest redelivery. A budget of 3 has a first, a middle
and a last result; the code's 5 adds middle ones. Two requests and two bookings make every pair of booking
operations meet, and a circle of two requests is the shortest; longer ones are excluded by proof. What the
proofs cover holds without these bounds.
`alive` and `Cases` (Stripe, documents) choose, once at the start, which objects take part: behaviours of
objects that share no state are checked one after another and not as a product. `Amount` 2 lets two refunds
fit, fill and exceed a charge. `MaxRetries` 1 has a first and a last attempt of a scan; `MaxFaults` 2
are two of lost workers, lost hooks and redeliveries, which with a retry put several copies of a scan on one document
and a late one behind its verdict. `Failing` names the renewal whose charge may fail: a renewal behaves as any other
otherwise, so one that fails and one that does not are enough.
`MaxMails` 1 ends in a run that cannot mail again. In the admission part every collision has two sides: same id and
other payload, same batch and other id, same bill and same id.
In the alerts part, rows meet only in processes that are free between two rows, so one row at a time
(`MaxRows` 1, a new one after a deletion or a fence counts) shows what several would; three claims with two attempts are a
takeover and an attempt beyond the maximum, which the claim does not refuse.
In `people`, three requests are a grant, its rival at the index and a third that withdraws or erases what the
rival waits for; with two revisions a grant meets a current record of its own or of another revision; three
records are two grants that succeed and one in the making. Two exports are the one that fails
and the one that takes its place, two retries a first, a middle and a last run. The five parts share no
rows, so MCPeople's `part` checks them one after the other, and they share their model values: within a part
the members of a set are interchangeable, which makes the symmetry sound. Four volunteers fill two places and make
a waitlist of two, which a departure or a promotion leaves with a gap; `MaxAsked` 1 is one booking past its
checks while everything else happens (what several of them have checked is the same); two requests
saving forms would differ from one only in who saves last. Logs of two hours with thresholds 2 and 5 cross one
exactly and one by excess, with one approval or with two at once; `MaxEdited` 1 is one open form of a log. Amounts 1 to 3
with T4A 2 and HardBlock 4 meet, miss and pass both.
In `booking`, calls change one thing and staff set a slot open or closed (a slot marked full behaves as a
closed one until a booking leaves it). Its two parts split the calls, so that bookings, moves, rejections and exclusive flags
meet in one, completions, cancellations, no-shows and the task of past slots in the other; in that one staff's edits of a slot do not
happen between requests.
Type correctness is proved of every module; TLC checks no type invariant beside that.

**Deadlock** checking is off where a system that has used its bounded messages, claims or attempts
really stops (the provider, payments, bulk_progress and documents runs); the other models never stop.

**Fairness** is only what the repository schedules: workers are restarted by their supervisor and finish what they
have begun, and Beat sends the entries that `setup_periodic_tasks` and `CELERY_BEAT_SCHEDULE` hold, under the names they hold. No
operator is assumed to send a task by hand. `provider_triage` assumes it of the workers and of every triage task in `Scheduled`;
the names differ, so no sweep is fair, and `UncertainIsTriaged` fails. `callback_schedule` assumes weak fairness of the
tasks, of Beat and of the worker that discards an unregistered message; `QueuedIsSettled` fails. `bulk_progress` assumes
besides that none dies at the same place for ever (strong fairness of the steps it interrupts), that a dead owner's
lease expires, that tasks do not outlive their lease (`SlowTasks`) and that nothing raises but the lock
(`Exceptions`): even so `ReceivedIsDecided` fails where the database refuses the lock. `documents` assumes weak fairness of
a scan worker's steps (a worker is restarted, takes messages and finishes its calls), nothing of the hooks:
what the commit did not dispatch is never judged, and `JudgedOnce` does not claim it; nor does it of a document whose
failure handler failed (`unhandled`).

**Mutants.** Each property of a passing run has a mutated definition in `PROJECT.json` (marked
"(Mutant.)" in the modules) that breaks it: a dropped guard or fence, a lock order by role instead of key,
a status taken for a count, a count incremented twice.

## 4. Disagreements found

Shown by a run:

* `provider_resubmit`: a non-final answer or a sweep erases the correlation that would have forced a poll, so a known
  payment is submitted.
* `provider_triage`, `callback_schedule`: Beat names the triage tasks and the callback sweep by paths under which no task is
  registered, and nothing else sends them; an uncertain attempt and a queued callback wait for ever.
* `bulk_progress`: the processing of a batch locks the nullable side of a join, which PostgreSQL refuses; a received
  batch is never decided.
* `booking_deadlock`: requests wait for each other in a circle: the UPDATE of the past slots locks its rows in any order, and completing a
  booking with the exclusive flag locks the no-show record before the slot. PostgreSQL breaks the circle by an error, but the
  comments say that it cannot happen.
* `documents_unscanned`: a file posted again through the presigned URL, between the scan and the copy, is promoted unseen.

Seen while modelling and listed in `PROJECT.json` as findings with the line and the text they contradict:

* *Lost between commit and hook*: the validation callback, the handed-over command, the webhook dispatch and
  the document scan are each dispatched after a commit that makes every later delivery a duplicate.
* *Lost in an exception*: the ambiguous answer rolled back with the recording that raised; the bulk task whose
  documented retries do not exist; the failure
  handler of the scan that swallows a failure of its own; the receipt task that retries for ever the address it does not have; the
  expired export whose mark its own 404 rolls back and whose disposal is never reached.
* *Nullable joins*: publishing and consuming a command's outbox row raise on PostgreSQL like the processing of a batch.
* *Stripe*: a success after a declined card is refused by the transition table; any failure of a refund
  call, a lost answer included, frees the amount for another refund; an early `charge.refunded` calls a staff
  refund a dashboard refund and asks for a row the admin forbids; a plan cancelled here may go on being
  charged there; a gift to be repeated gets no donation and no receipt; a refund counts as made whatever status Stripe returns;
  tax-year windows overlap, and the annual run skips donors, not donations.
* *Admission*: a refused duplicate batch leaves its command to be executed; two notifications with different
  ids pay one bill twice.
* *Booking*: a cancellation that recomputes the status from the count and reopens a slot an exclusive booking
  blocks; the pending timeout that can cancel a confirmed booking; slot ids sorted by the caller's spelling; `spaces_used`
  is said to count confirmed bookings and counts pending ones as well.
* *Documents*: a hold set during a purge does not stop it; a late confirmation can end active without a
  file, or be deleted by the clean-up while it is scanned; the clean-up can leave a chain without a latest version, a failed signature with two; one stale root
  with versions blocks its chunk every day; promotion leftovers outlive a purge; infected leftovers have no
  clean-up.
* *Alerts*: nothing marks an alert dispatched, so a new message text sends a fired alert to everyone
  again; a new event or category after the alert has fired starts a generation that no task admits; the id of
  the scheduled task is written back over a later one.
* *Consent*: a withdrawal that waits for the record a grant archives answers that there is none; a record
  granted between the two reads of an erasure is deleted and its revisions keep the citizen's data; a failure
  after the download sets a delivered export back, and a retry makes it ready again, without a token; the loser of an insertion may answer with a record withdrawn since, or find no winner; a grant of
  a superseded revision is honoured; the revisions of manual signatures survive an erasure; a webhook whose
  retries are exhausted keeps its last status; a request whose hook is lost stays pending and forbids
  another; a token is spent by a download that fails; files of a lost export task have no owner.
* *Volunteers*: the approval mail reads the total before it is recomputed; an honorarium whose ledger entry fails
  in the database is rolled back and reported created; the back office edits honoraria without the lock
  clean() counts on, approves hours without a new total, and writes back totals and cancellations it
  read before; a lost hook loses milestones for good; a promotion does not look at the clock; a raised
  capacity promotes nobody, and the documented check for overlapping shifts does not exist; the
  hard block refuses what reaches it, the docstring what would exceed it.

The bulk task's docstring (`payments/govstack_tasks.py:7-12`) also describes a simple pass over the
batch, which the lease and policy code has replaced. Consuming an access token and then answering 404 rolls the
token back with the request (`ATOMIC_REQUESTS`), which is harmless.

## 5. Proofs

For arbitrary sets of attempts, workers, sweepers, tasks, callbacks, requests, servers, consumers, documents,
recipients, publishers, slots, citizens, bookings, web requests, revisions, exports, volunteers, logs, approvals,
charges, refunds, receipts and payments, and any bounds:

* **ProviderRuntimeProofs**. `IInv` adds to the properties: `ClaimInv` (a worker in its call holds a
  generation no greater than the row's, shared with nobody and without evidence yet), `SubmitInv`
  (`submit_started_at` is set before the submit and never reset, and at most one worker is submitting) and
  `TruthInv` (an accepted finality in a worker's hands agrees with the provider's books). Without the
  first, two owners could record one claim; without the second, a redelivered task could submit again; the
  third carries truth across the gap between call and transaction. One lemma per action shows that a step
  keeps `IInv`; `Invariance` concludes with PTL, and the action properties (`MovesAllowed`,
  `EvidenceOrdered`) follow from `IInv` and a step. `Refinement` shows that every step is a step of
  PaymentPromise or a stutter: the submit needs `SubmitInv`, the verdict `TruthInv`.
* **BulkProofs**. `IInv` adds `EvidenceInv` (accepted evidence is the provider's outcome) and
  `DecisionInv` (a decision's action is the policy's function of its inputs, under a generation that was
  drawn). The first makes the projection truthful, the second excludes a decision under a lease not yet
  held, so one generation cannot decide twice. `DecisionsInLeaseOrder` and `ResultIsFrozen` follow from
  `IInv` and a step, and so does the refinement of BatchPromise (`BatchRefinement`): a decision that was made before is
  replayed without a new term, and `ConcludesOnce` says that it cannot have been a conclusion. For the outbox,
  `OutboxInv` adds `PostInv`: who holds a success was answered, and only queued rows are posted.
* **PaymentIntakeProofs**. `IInv` adds `Queues` (the shapes a server's hook queue can have), `Stored` (a command
  holds its identity only with its batch stored, so a replay is never told "ok"), `Busy`, and the send
  invariants: `HookSends` (a task has been sent, or one server has its hook, or its object does not exist
  yet) and `ConsumerSends` (an orchestration has been sent, or one consumer is about to, or the row is not
  acknowledged). Without them two hooks of one object could both be pending.
* **DocumentsProofs**. `IInv` adds what each process relies on that touches a file without the row's lock: a worker
  about to unlink has a judged document, one about to promote a clean object or one posted again since (`TaskInv`); a row
  of the clean-up's snapshot or of its list of ids that is no longer pending left that status after its window (`ChunkInv`);
  a purge under way has a deleted document that no clean-up holds (`PurgeInv`). Each is a fact neither the lifecycle nor a
  further post can undo, so it is still true when the file goes; `KeptInv` says where the file is in every status.
  `FilesKept` follows, for any number of posts at any time. `MovesInLifecycle` is the safety half of `JudgedOnce`, with
  the removals of tardy documents by a delete by id.
* **AlertDeliveryProofs**. `IInv` adds two sides. `WorkerSide`: who holds the token of a row in flight is alone
  (`LeaseInv`, `HolderInv`, `UniqueInv`), and since a fence closes every open row of a generation with it,
  a worker whose token is still valid read the alert of its own generation, so its post is the row's
  (`PostInv`). `PublisherSide`: an outbox row exists with its delivery (`PairInv`), and a publisher that
  has handed over and still owns the row left a message behind while the delivery is pending
  (`PublisherInv`), so marking it published loses nothing. `LeaseIsExclusive` follows from `IInv` and a step.
* **BookingProofs**. `IInv` adds what a request in the middle of its locks can rely on: `Shaped` (its booking first,
  then its slots, in ascending order but for the UPDATE of past slots), `Informed` (what a modification knows of its booking:
  the slot it leaves, which slots its new status touches, and, once it is locked, that the transition is permitted), `Reserved`
  (the slots a creation has locked stay bookable) and between two requests `Apart` (no row locked twice). With them a commit
  changes the status and the count of a slot by the same booking, which `SpacesAreExact` needs: its proof
  compares the sets of active bookings before and after the step, and the capacity (`WithinCapacity`) follows the count.
  `NeverOverbooked` is their corollary. `LocksNeverCircle` proves `OrderedNeverCircle`: among requests that are neither
  an UPDATE of past slots nor hold the no-show record while they still want a slot, who holds a record waits for
  nothing, so none in a circle waits for one; who holds a booking waits for a slot; and of those that wait for slots one
  waits for the last, whose holder would have to wait for a later one. That a
  finite set of slots has a first and a last is lemma `Extremes`. The two excepted kinds of request do make circles: that is the run
  `booking_deadlock`. `OutcomeIsFinal` follows from `IInv` and a step.
* **PeopleProofs**.
  Consent: `Inv` speaks of the rows through four sets (absent, live, current, erased) and adds, for each
  request: `Locking` (a grant that has inserted holds every committed current row, so its commit replaces
  them by one), `Erasing` (an erasure takes the whole history or a part that is past, so it never
  leaves a history without a current record, and takes all that was there when it began), `Seeing` (a grant
  that lost the insertion has seen a grant succeed, so its answer out of the winner's row was true), and
  between two requests `Apart` (no row locked twice, no two rows inserted at once). `OneCurrentRecord` and
  `TrueAnswers` follow; the sets are arbitrary, `Fresh` is any absent row.
  Exports: `ExportInv` says when the token is spent (`TokenSpent`), that a request's task is queued by its
  one commit (`QueuedOnce`) and is over when the request expires (`PastExpiry`), and that the clean-up holds
  expired requests only, so what it disposes of nobody can download (`SweptExpired`, `DisposedLate`). `Written` is
  the fact that lets a retry call an archive ready that it did not write itself.
  Hours: `HoursInv` adds to the types `OneUpdates` (the lock of the profile), `Summed` (who will write
  the sum of the approved logs: somebody has his hook before him, or holds the sum of exactly those logs, or it is
  written) and `Compared` (a total that anybody has read, a form included, lies below every threshold
  that nobody has seen to). Without the lock two sums could be written in the wrong order; without the third an
  approval that compares with a total of the past could pass a threshold by.
  Shifts: `EmptyInv` adds the shape of the rows of a shift to `CancelledIsEmpty`; `PlacesInv` adds `QueueInOrder`
  to `PlacesAreShared`: positions grow with the time of joining although departures leave gaps and
  `_next_waitlist_position` counts from the largest one, so the smallest position is the volunteer who has waited
  longest.
* **MoneyProofs**.
  Sums: two properties bound a sum over rows. The library's sum recurs over the subsets of a set with a CHOOSE,
  and neither the recursion theorems nor set induction can be instantiated here; the lemmas (the recursion
  has one solution, a sum is a natural number, does not depend on the order, loses an element's term with the
  element, is monotone) look at a smallest subset for which they would fail (`SmallestSubset`).
  Books: `BooksInv` is the five properties (a completed payment has its donation, or is a fee or a gift to be repeated and has
  none) together with what the messages and processes between the tables know:
  `EventsAreTrue` (an event in the inbox happened at Stripe, and a hook still to run has its donation in the
  books), `RefundRows` (a call to Stripe is owed for a pending row only and an answer is true, so a row that
  succeeds was refunded by its amount), `ReceiptRows` (the document is there before the mail, the mail out before
  the mark), `AnnualRows` (the annual run holds eligible donations).
  Honoraria: `HonorariaInv` adds `TogetherMeet` (two requests at work have met, since one of them is an edit:
  creations hold the profile's lock), `StillClean` (what a request that met nobody will write is what
  `clean()` would still make of it) and `YearInBounds`. `CeilingHolds` alone is not inductive: the flag of a year
  that has reached the T4A threshold could be lost by editing the flagged row. What is preserved is that the
  rows without a flag stay below the threshold together.

`ResultIsFrozen`, `ConcludesOnce`, `OneDecisionPerGeneration`, `OneResultPerClaim`, `SettledIsFinal`, `FinalityIsEvidenced` and
`StatusMovesAllowed` are proved only: they are part of the inductive invariants or follow from them and a step.

**Assumptions**: the constants are what their names say (natural bounds, disjoint process sets, `None`
outside the sets; a charge is a gift, a fee or a renewal; calls carry flags and statuses the API admits); the tables a
sum, a count or a maximum ranges over (slots, bookings, volunteers, refunds, payments) are finite; a provider's verified
final answer is true and a payment in its books keeps its outcome; PostgreSQL's row locks, READ COMMITTED statements and
unique constraints. Nothing is assumed of timing.

**Only model-checked**: liveness (the second half of `JudgedOnce`), which is out of the prover's reach, like ENABLED, and the
properties the violation runs refute. Every invariant and action property of a passing run is proved.

## 6. Not modelled, and the plan

In the models' components: HTTP parsing, authentication and wording; the counters of `ClientNoShowRecord` (its row lock is
modelled) and suspension (a refusal, hence `Abort`); repeated or non-canonical event ids in one call; the admin's whole-row
saves; generation of new slots after the start; other tenants (rows are not shared); disputes and the intents
Stripe expires by itself; serial numbers of receipts (a database sequence); `is_latest_version`, access tokens
and the development bypass of ClamAV; the forms of consent records that refuse before anything is locked, their
manual signatures, hash chain and redaction, and revisions of former records (read by nobody here); waits for
locks that only a deadlock detected by PostgreSQL ends (`Abort`); `admit_prepayment_execution` and `admit_provider_attempt`, which only
tests call; the unlimited capacity of a shift (as many places as volunteers), changes of its times, bookings and logged
hours that staff edit or delete by hand, reminders.

Components left out: vouchers, beneficiaries, volunteer applications and service requests each read
and write one row under one lock and check a transition table, so no step of
one operation falls between two of another; of the Scheduler, the text of a message, who is eligible (an
arbitrary set here) and the entities that are only written and listed; CMS, back office, audit and reports have no protocol of
their own.

Plan, most important first:

1. The abstract promise of the hand-over of PaymentIntake (reserved, then handed over once), refined as
   PaymentPromise and BatchPromise are.
2. PaymentIntake composed with ProviderRuntime: what was handed over is executed once.
3. The webhook deliveries of Consent, whose retries share a status.
4. The hazards without a property: the live claim met by a redelivered message (`provider_runtime.py:158`), and the two
   unlocked counts of booking.py, which need a model of a citizen's bookings beside the slots.
