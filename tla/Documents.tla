----------------------------- MODULE Documents -----------------------------
(***************************************************************************)
(* Uploaded documents: upload and confirmation, the virus scan with its    *)
(* promotion from quarantine/ to active/, versions, legal holds, disposal, *)
(* irreversible purge, and the clean-up of abandoned uploads.              *)
(*                                                                         *)
(* Source: apps/documents/tasks.py, services/{upload,versioning,           *)
(*         retention}.py, models.py.                                       *)
(*                                                                         *)
(* Rows are read and written under their locks; the object storage is not  *)
(* part of any transaction.  An object is what one upload wrote: a row and *)
(* the prefix of its key.  ClamAV is configured (no development bypass).   *)
(* Time only enables: retention, grace and age are met or not; the days of *)
(* grace before a purge are more than a presigned POST or a clean-up lasts.*)
(***************************************************************************)
EXTENDS Naturals, FiniteSets

CONSTANTS
  Docs,        \* document rows
  Root,        \* Root[d]: version 1 of d's chain; d itself for version 1
  Threats,     \* documents for which a browser may post a file with a threat
  Held,        \* documents staff may put under a legal hold
  Workers,     \* processes running scan_document
  Purgers,     \* processes running hard_delete
  MaxRetries,  \* max_retries of scan_document
  MaxFaults,   \* bound on lost workers, lost hooks and redeliveries
  Cases,       \* sets of documents, workers and purgers that take part together
  None

ASSUME DocumentAssumption ==
  /\ Root \in [Docs -> Docs] /\ \A d \in Docs : Root[Root[d]] = Root[d]
  /\ Threats \subseteq Docs /\ Held \subseteq Docs
  /\ Cases \subseteq SUBSET (Docs \cup Workers \cup Purgers)
  /\ MaxRetries \in Nat /\ MaxFaults \in Nat

VARIABLES
  alive,     \* the documents and processes of this behaviour, fixed at the start
  row,       \* the Document rows
  objects,   \* the objects in storage: <<document, prefix>>
  infected,  \* the objects in whose last content ClamAV finds a threat
  late,      \* documents whose upload window (presigned POST and grace) is over
  tardy,     \* documents confirmed or deleted only after their window (history)
  swapped,   \* documents posted again between a clean scan and its copy (history)
  unhandled, \* documents whose failure handler failed itself (history)
  hooks,     \* confirmed documents whose on_commit dispatch is still to run
  messages,  \* scan_document messages: <<document, retries>>
  worker,    \* scan workers
  cleaner,   \* cleanup_stale_pending_uploads
  purger,    \* hard_delete calls
  purged,    \* purged[d]: RECORD_PURGED entries (history)
  faults     \* lost workers, lost hooks and redeliveries so far

vars == <<alive, row, objects, infected, late, tardy, swapped, unhandled, hooks, messages, worker,
          cleaner, purger, purged, faults>>

ScanStatus == {"pending_upload", "scanning", "active", "quarantined", "deleted", "purged"}

Prefixes == {"quarantine", "active"}

\* "absent" before the row is created, "removed" once the clean-up deleted it.
Row == [status: ScanStatus \cup {"absent", "removed"}, key: Prefixes \cup {None},
        hold: BOOLEAN]

Idle == [pc |-> "idle", doc |-> None, retries |-> 0]

Off == [pc |-> "off", chunk |-> {}]

Free == [pc |-> "off", doc |-> None, key |-> None]

Init ==
  /\ alive \in Cases
  /\ row = [d \in Docs |-> [status |-> "absent", key |-> None, hold |-> FALSE]]
  /\ objects = {} /\ infected = {}
  /\ late = {} /\ tardy = {} /\ swapped = {} /\ unhandled = {}
  /\ hooks = {} /\ messages = {}
  /\ worker = [w \in Workers |-> Idle]
  /\ cleaner = Off
  /\ purger = [p \in Purgers |-> Free]
  /\ purged = [d \in Docs |-> 0]
  /\ faults = 0

Status(d) == row[d].status
Exists(d) == Status(d) \notin {"absent", "removed"}

\* deleted_at is set: by soft_delete, and kept by the purge.
SoftDeleted(d) == Status(d) \in {"deleted", "purged"}

SetStatus(d, s) == row' = [row EXCEPT ![d].status = s]

Fault == faults < MaxFaults /\ faults' = faults + 1

tasks == <<hooks, messages, worker, faults>>
sweeps == <<alive, cleaner, purger, purged>>
marks == <<infected, late, tardy, swapped, unhandled>>

----------------------------------------------------------------------------
(* Upload, versions and confirmation.                                      *)

Uploaded(hold) ==
  [status |-> "pending_upload", key |-> "quarantine", hold |-> hold]

\* The row is deleted.
Removed == [status |-> "removed", key |-> None, hold |-> FALSE]

ValidateUpload(d) ==
  /\ d \in alive /\ Root[d] = d /\ Status(d) = "absent"
  /\ row' = [row EXCEPT ![d] = Uploaded(FALSE)]
  /\ UNCHANGED <<objects, marks, tasks, sweeps>>

\* Under the locks of the chain.  Any state of the root will do, short of
\* deleted; its legal hold is inherited.
CreateNewVersion(d) ==
  LET c == Root[d]
  IN  /\ d \in alive /\ c # d /\ Status(d) = "absent"
      /\ Exists(c) /\ ~SoftDeleted(c)
      /\ row' = [row EXCEPT ![d] = Uploaded(row[c].hold)]
      /\ UNCHANGED <<objects, marks, tasks, sweeps>>

\* root_document is PROTECTed.
HasVersions(d) == \E e \in Docs \ {d} : Root[e] = d /\ Exists(e)

\* The URL cannot be signed: the new row is deleted again, in a transaction of
\* its own.
PresignFails(d) ==
  /\ Status(d) = "pending_upload" /\ d \notin late /\ <<d, "quarantine">> \notin objects
  /\ ~HasVersions(d)
  /\ row' = [row EXCEPT ![d] = Removed]
  /\ UNCHANGED <<objects, marks, tasks, sweeps>>

\* The browser's POST to the presigned URL, which the server does not see.  It is
\* good for any number of posts while the window is open, whatever has become of
\* the row, and the last content stays.
BrowserPost(d) ==
  /\ Exists(d) /\ d \notin late
  /\ objects' = objects \cup {<<d, "quarantine">>}
  /\ \E threat \in {FALSE} \cup {d \in Threats} :
       infected' = IF threat THEN infected \cup {<<d, "quarantine">>}
                   ELSE infected \ {<<d, "quarantine">>}
  /\ swapped' = IF \E w \in Workers : worker[w].doc = d /\ worker[w].pc = "clean"
                THEN swapped \cup {d} ELSE swapped
  /\ UNCHANGED <<row, late, tardy, unhandled, tasks, sweeps>>

WindowCloses(d) ==
  /\ Exists(d) /\ d \notin late
  /\ late' = late \cup {d}
  /\ UNCHANGED <<row, objects, infected, tardy, swapped, unhandled, tasks, sweeps>>

\* A document leaves pending_upload, maybe after its window.
LeavesPending(d) ==
  tardy' = IF Status(d) = "pending_upload" /\ d \in late THEN tardy \cup {d} ELSE tardy

\* Confirmation has no deadline of its own.
ConfirmUpload(d) ==
  /\ Status(d) = "pending_upload" /\ <<d, row[d].key>> \in objects
  /\ SetStatus(d, "scanning")
  /\ hooks' = hooks \cup {d}
  /\ LeavesPending(d)
  /\ UNCHANGED <<objects, infected, late, swapped, unhandled, messages, worker, faults, sweeps>>

DispatchScan(d) ==
  /\ d \in hooks
  /\ hooks' = hooks \ {d}
  /\ messages' = messages \cup {<<d, 0>>}
  /\ UNCHANGED <<row, objects, marks, worker, faults, sweeps>>

\* The process is lost after its commit; nothing else dispatches the scan.
HookLost(d) ==
  /\ d \in hooks /\ Fault
  /\ hooks' = hooks \ {d}
  /\ UNCHANGED <<row, objects, marks, messages, worker, sweeps>>

----------------------------------------------------------------------------
(* scan_document.                                                          *)

Become(w, pc, d, n) == worker' = [worker EXCEPT ![w] = [pc |-> pc, doc |-> d, retries |-> n]]
Goto(w, pc) == worker' = [worker EXCEPT ![w].pc = pc]
At(w, pc) == worker[w].pc = pc
Finish(w) == worker' = [worker EXCEPT ![w] = Idle]

\* (Mutant.)  Only a deleted row is skipped.
StillThere(d) == Exists(d)

Unjudged(d) == Status(d) = "scanning"

\* Step 1, under the row's lock: is there still something to judge?  A missing row
\* may be one a replica does not show yet: the task is retried.
Take(w, m) ==
  /\ w \in alive /\ worker[w] = Idle /\ m \in messages
  /\ IF Unjudged(m[1]) THEN Become(w, "scan", m[1], m[2])
     ELSE IF Exists(m[1]) THEN UNCHANGED worker
     ELSE Become(w, "retry", m[1], m[2])

ReceiveScan(w, m) ==
  /\ Take(w, m)
  /\ messages' = messages \ {m}
  /\ UNCHANGED <<row, objects, marks, hooks, faults, sweeps>>

\* acks_late: a second copy becomes visible while the first is at work.
ReceiveCopy(w, m) ==
  /\ Take(w, m) /\ Unjudged(m[1]) /\ Fault
  /\ UNCHANGED <<row, objects, marks, hooks, messages, sweeps>>

\* Step 2, outside any transaction; an object that cannot be read is quarantined.
Scan(w) ==
  /\ At(w, "scan")
  /\ Goto(w, IF <<worker[w].doc, "quarantine">> \in objects \ infected THEN "clean" ELSE "threat")
  /\ UNCHANGED <<row, objects, marks, hooks, messages, faults, sweeps>>

Exhausted(n) == n = MaxRetries

\* The row is missing, ClamAV is unreachable or errs, or the result cannot be
\* persisted.
Retry(w) ==
  /\ worker[w].pc \in {"retry", "scan", "clean", "threat"}
  /\ IF Exhausted(worker[w].retries)
     THEN Goto(w, "failed") /\ UNCHANGED messages
     ELSE /\ messages' = messages \cup {<<worker[w].doc, worker[w].retries + 1>>}
          /\ Finish(w)
  /\ UNCHANGED <<row, objects, marks, hooks, faults, sweeps>>

\* _ScanDocumentTask.on_failure; a failure of its own is logged, no more.
OnFailure(w) ==
  LET d == worker[w].doc
  IN  /\ At(w, "failed")
      /\ \/ Unjudged(d) /\ SetStatus(d, "quarantined") /\ UNCHANGED unhandled
         \/ Unjudged(d) /\ unhandled' = unhandled \cup {d} /\ UNCHANGED row
         \/ ~Unjudged(d) /\ UNCHANGED <<row, unhandled>>
      /\ Finish(w)
      /\ UNCHANGED <<objects, infected, late, tardy, swapped, hooks, messages, faults, sweeps>>

\* What is under quarantine/ by now, over what may be under active/.
Copy(d) ==
  /\ objects' = objects \cup {<<d, "active">>}
  /\ infected' = IF <<d, "quarantine">> \in infected THEN infected \cup {<<d, "active">>}
                 ELSE infected \ {<<d, "active">>}

\* Step 3, clean: copy, repoint and flip in one transaction.  A source that is
\* missing is not an error: the row becomes active with its old key.
MarkActive(w) ==
  LET d == worker[w].doc
  IN  /\ At(w, "clean")
      /\ IF ~Unjudged(d)
         THEN Finish(w) /\ UNCHANGED <<row, objects, infected>>
         ELSE IF <<d, "quarantine">> \in objects
         THEN /\ Copy(d)
              /\ row' = [row EXCEPT ![d].status = "active", ![d].key = "active"]
              /\ Goto(w, "unlink")
         ELSE SetStatus(d, "active") /\ Finish(w) /\ UNCHANGED <<objects, infected>>
      /\ UNCHANGED <<late, tardy, swapped, unhandled, hooks, messages, faults, sweeps>>

\* The transaction fails after the copy: the copy stays and the task is retried.
CopyOnly(w) ==
  LET d == worker[w].doc
  IN  /\ At(w, "clean") /\ Unjudged(d) /\ <<d, "quarantine">> \in objects
      /\ Copy(d)
      /\ Goto(w, "retry")
      /\ UNCHANGED <<row, late, tardy, swapped, unhandled, hooks, messages, faults, sweeps>>

\* Step 3, a threat or an unreadable file.
MarkQuarantined(w) ==
  LET d == worker[w].doc
  IN  /\ At(w, "threat")
      /\ IF Unjudged(d) THEN SetStatus(d, "quarantined") /\ Goto(w, "unlink")
         ELSE Finish(w) /\ UNCHANGED row
      /\ UNCHANGED <<objects, marks, hooks, messages, faults, sweeps>>

\* After commit, best effort: the redundant or infected object goes.
Unlink(w) ==
  /\ At(w, "unlink")
  /\ objects' \in {objects, objects \ {<<worker[w].doc, "quarantine">>}}
  /\ Finish(w)
  /\ UNCHANGED <<row, marks, hooks, messages, faults, sweeps>>

\* reject_on_worker_lost: the message returns.
WorkerLost(w) ==
  /\ ~At(w, "idle") /\ Fault
  /\ messages' = messages \cup {<<worker[w].doc, worker[w].retries>>}
  /\ Finish(w)
  /\ UNCHANGED <<row, objects, marks, hooks, sweeps>>

----------------------------------------------------------------------------
(* cleanup_stale_pending_uploads.                                          *)

\* (Mutant.)  The age of the row is not asked for.
AnyPending == {d \in Docs : Status(d) = "pending_upload"}

Stale == {d \in late : Status(d) = "pending_upload"}

CleanupSnapshot ==
  /\ cleaner = Off /\ Stale # {}
  /\ cleaner' = [pc |-> "purge", chunk |-> Stale]
  /\ UNCHANGED <<row, objects, marks, alive, tasks, purger, purged>>

\* Storage first; errors are swallowed.
CleanupPurge ==
  /\ cleaner.pc = "purge"
  /\ objects' \in {objects, objects \ (cleaner.chunk \X {"quarantine"})}
  /\ cleaner' = [cleaner EXCEPT !.pc = "select"]
  /\ UNCHANGED <<row, marks, alive, tasks, purger, purged>>

\* filter(...).delete() reads the rows that are still pending; one of them with
\* versions fails it.
CleanupSelect ==
  LET found == {d \in cleaner.chunk : Status(d) = "pending_upload"}
  IN  /\ cleaner.pc = "select"
      /\ cleaner' = IF found = {} \/ \E d \in found : HasVersions(d) THEN Off
                    ELSE [pc |-> "delete", chunk |-> found]
      /\ UNCHANGED <<row, objects, marks, alive, tasks, purger, purged>>

\* Then it deletes those rows by their ids, whatever their status is by now; a
\* version created meanwhile fails it.
CleanupDelete ==
  /\ cleaner.pc = "delete"
  /\ row' = IF \E d \in cleaner.chunk : HasVersions(d) THEN row
            ELSE [d \in Docs |-> IF d \in cleaner.chunk THEN Removed ELSE row[d]]
  /\ cleaner' = Off
  /\ UNCHANGED <<objects, marks, alive, tasks, purger, purged>>

----------------------------------------------------------------------------
(* Retention: holds, disposal and purge.                                   *)

ApplyLegalHold(d) ==
  /\ d \in Held /\ Exists(d) /\ ~row[d].hold
  /\ row' = [row EXCEPT ![d].hold = TRUE]
  /\ UNCHANGED <<objects, marks, tasks, sweeps>>

ReleaseLegalHold(d) ==
  /\ Exists(d) /\ row[d].hold
  /\ row' = [row EXCEPT ![d].hold = FALSE]
  /\ UNCHANGED <<objects, marks, tasks, sweeps>>

\* soft_delete by staff or by the schedule, mark_purpose_fulfilled: the locked
\* row decides, whatever the caller read before.
SoftDelete(d) ==
  /\ Exists(d) /\ ~SoftDeleted(d) /\ ~row[d].hold
  /\ SetStatus(d, "deleted")
  /\ LeavesPending(d)
  /\ UNCHANGED <<objects, infected, late, swapped, unhandled, tasks, sweeps>>

PGoto(p, pc) == purger' = [purger EXCEPT ![p].pc = pc]
PFree(p) == purger' = [purger EXCEPT ![p] = Free]

\* hard_delete, step 1: every precondition under the lock, which is then
\* released.  Thirty days have passed: longer than a window and than a clean-up.
HardDelete(p, d) ==
  /\ p \in alive /\ purger[p] = Free
  /\ d \in late /\ d \notin cleaner.chunk
  /\ Status(d) = "deleted" /\ ~row[d].hold
  /\ purger' = [purger EXCEPT ![p] = [pc |-> "erase", doc |-> d, key |-> row[d].key]]
  /\ UNCHANGED <<row, objects, marks, alive, tasks, cleaner, purged>>

\* Step 2; on a storage error the row stays as it is.
EraseObject(p) ==
  /\ purger[p].pc = "erase"
  /\ \/ objects' = objects \ {<<purger[p].doc, purger[p].key>>} /\ PGoto(p, "record")
     \/ PFree(p) /\ UNCHANGED objects
  /\ UNCHANGED <<row, marks, alive, tasks, cleaner, purged>>

\* Step 3: the conditional update and its audit entry.
RecordPurge(p) ==
  LET d == purger[p].doc
  IN  /\ purger[p].pc = "record"
      /\ IF Status(d) = "deleted"
         THEN /\ row' = [row EXCEPT ![d].status = "purged", ![d].key = None]
              /\ purged' = [purged EXCEPT ![d] = @ + 1]
         ELSE UNCHANGED <<row, purged>>
      /\ PFree(p)
      /\ UNCHANGED <<objects, marks, alive, tasks, cleaner>>

PurgerLost(p) ==
  /\ purger[p] # Free
  /\ PFree(p)
  /\ UNCHANGED <<row, objects, marks, alive, tasks, cleaner, purged>>

----------------------------------------------------------------------------
WorkerStep(w) ==
  \/ \E m \in messages : ReceiveScan(w, m)
  \/ Scan(w) \/ Retry(w) \/ OnFailure(w) \/ MarkActive(w) \/ CopyOnly(w)
  \/ MarkQuarantined(w) \/ Unlink(w)

Next ==
  \/ \E d \in Docs :
       \/ ValidateUpload(d) \/ CreateNewVersion(d) \/ PresignFails(d) \/ BrowserPost(d) \/ WindowCloses(d)
       \/ ConfirmUpload(d) \/ DispatchScan(d) \/ HookLost(d)
       \/ ApplyLegalHold(d) \/ ReleaseLegalHold(d) \/ SoftDelete(d)
  \/ \E w \in Workers :
       WorkerStep(w) \/ WorkerLost(w) \/ \E m \in messages : ReceiveCopy(w, m)
  \/ CleanupSnapshot \/ CleanupPurge \/ CleanupSelect \/ CleanupDelete
  \/ \E p \in Purgers :
       \/ \E d \in Docs : HardDelete(p, d)
       \/ EraseObject(p) \/ RecordPurge(p) \/ PurgerLost(p)

\* A running worker finishes its task or hands it on, and a message is taken.
Spec ==
  /\ Init /\ [][Next]_vars
  /\ \A w \in Workers : WF_vars(WorkerStep(w))

----------------------------------------------------------------------------
(* Properties.                                                             *)

TypeOK ==
  /\ alive \in Cases
  /\ row \in [Docs -> Row]
  /\ objects \subseteq Docs \X Prefixes /\ infected \subseteq Docs \X Prefixes
  /\ late \subseteq Docs /\ tardy \subseteq late /\ swapped \subseteq Docs
  /\ unhandled \subseteq Docs /\ hooks \subseteq Docs
  /\ messages \subseteq Docs \X (0 .. MaxRetries)
  /\ worker \in [Workers ->
       [pc: {"idle", "retry", "scan", "clean", "threat", "failed", "unlink"},
        doc: Docs \cup {None}, retries: 0 .. MaxRetries]]
  /\ cleaner \in [pc: {"off", "purge", "select", "delete"}, chunk: SUBSET Docs]
  /\ purger \in [Purgers -> [pc: {"off", "erase", "record"}, doc: Docs \cup {None},
                             key: Prefixes \cup {None}]]
  /\ purged \in [Docs -> Nat]
  /\ faults \in 0 .. MaxFaults

\* The file of an active document is where its row says, in spite of copies of
\* the scan, lost workers, promotions cut short, the clean-up and the purge; the
\* one exception is a document confirmed after its window, which the clean-up
\* may have read before.  What is infected gets under active/ in one way only: it
\* was posted between a clean scan and the copy (_mark_document_active_clamav).
\* A purge is recorded once.
FilesAreKept ==
  \A d \in Docs :
     /\ Status(d) = "active" => <<d, row[d].key>> \in objects \/ d \in tardy
     /\ <<d, "active">> \in objects \cap infected => d \in swapped
     /\ purged[d] = IF Status(d) = "purged" THEN 1 ELSE 0

\* What the comment on the prefixes says of an object under active/: it "was
\* streamed through ClamAV and came back clean" (tasks.py:103).  Refuted: the
\* presigned POST may replace the object between the scan and the copy.
ActiveIsScanned == \A d \in Docs : <<d, "active">> \notin objects \cap infected

Lifecycle ==
  {<<"absent", "pending_upload">>, <<"pending_upload", "removed">>,
   <<"pending_upload", "scanning">>, <<"scanning", "active">>, <<"scanning", "quarantined">>,
   <<"deleted", "purged">>} \cup ({"pending_upload", "scanning", "active", "quarantined"} \X {"deleted"})

\* In this behaviour some process runs the scans.
Served == Workers \cap alive # {}

BeingScanned(d) ==
  /\ Status(d) = "scanning" /\ Served
  /\ \/ \E m \in messages : m[1] = d
     \/ \E w \in Workers : worker[w].doc = d

\* No late verdict, failure, purge or copy of a task moves a document backwards
\* or out of a final status.  The clean-up removes what was never confirmed; a
\* document confirmed or deleted after its window is the only other that it may
\* still remove (_quarantine_on_scan_failure, cleanup_stale_pending_uploads).
StatusMoves ==
  [][\A d \in Docs :
        \/ row'[d].status = Status(d)
        \/ <<Status(d), row'[d].status>> \in Lifecycle
        \/ row'[d].status = "removed" /\ Status(d) # "purged" /\ d \in tardy]_vars

\* A document whose scan was dispatched leaves SCANNING, by verdict or by
\* exhausted retries, unless the handler of the failure failed itself, and no late
\* verdict, failure or copy of the task moves a judged or deleted document again
\* (scan_document, _quarantine_on_scan_failure).
JudgedOnce ==
  /\ StatusMoves
  /\ \A d \in Docs : BeingScanned(d) ~> Status(d) # "scanning" \/ d \in unhandled
=============================================================================
