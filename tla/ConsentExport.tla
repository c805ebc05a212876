---------------------------- MODULE ConsentExport ----------------------------
(***************************************************************************)
(* The data exports of one citizen: the request, the task that writes the  *)
(* archive, the single download, and the daily clean-up.                   *)
(*                                                                         *)
(* Source: apps/consent/{services,tasks,views,models}.py.                  *)
(*                                                                         *)
(* Citizens share no rows.  The task and the clean-up run without locks: a *)
(* row is read in one action and written in a later one.  Time enables: a  *)
(* processing export may be two hours old at any moment, a ready one seven *)
(* days when its task and the retries are over.  The task is acknowledged  *)
(* when it starts (it has no acks_late): a worker lost loses it.  The      *)
(* category of the archive's document is seeded and transitory.            *)
(***************************************************************************)
EXTENDS Naturals, FiniteSets

CONSTANTS
  Exports,      \* bound on the requests ever made
  MaxRetries,   \* process_data_export.max_retries
  None

ASSUME ExportAssumption == MaxRetries \in Nat /\ None \notin Exports

VARIABLES
  export,     \* DataExportRequest rows and their documents
  hook,       \* requests committed whose on_commit has not run
  task,       \* process_data_export, per request: queued or running
  sweep,      \* cleanup_export_files
  served      \* how often a request's archive was handed out (history)

exportVars == <<export, hook, task, sweep, served>>

Active == {"pending", "processing"}
Final == {"delivered", "expired"}

\* status: absent, pending, processing, ready, failed, delivered or expired; doc: its
\* document, none, kept or disposed; expired: expires_at is past
NoExport == [status |-> "absent", doc |-> "none", token |-> FALSE, expired |-> FALSE]

NoTask == [pc |-> "off", tries |-> 0]
NoSweep == [pc |-> "off", batch |-> {}, at |-> None]

ExportInit ==
  /\ export = [e \in Exports |-> NoExport]
  /\ hook = {}
  /\ task = [e \in Exports |-> NoTask]
  /\ sweep = NoSweep
  /\ served = [e \in Exports |-> 0]

\* unique_active_export_per_citizen.
OthersActive(e) == \E f \in Exports \ {e} : export[f].status \in Active

----------------------------------------------------------------------------
(* The request, and the download.                                          *)

\* request_export.
RequestExport(e) ==
  /\ export[e].status = "absent" /\ ~OthersActive(e)
  /\ export' = [export EXCEPT ![e].status = "pending", ![e].token = TRUE]
  /\ hook' = hook \cup {e}
  /\ UNCHANGED <<task, sweep, served>>

\* _send_export_requested: the task is queued, unless a receiver of the signal or
\* the broker fails.
RunHook(e) ==
  /\ e \in hook
  /\ hook' = hook \ {e}
  /\ task' = [task EXCEPT ![e] = [NoTask EXCEPT !.pc = "queued"]]
  /\ UNCHANGED <<export, sweep, served>>

HookLost(e) ==
  /\ e \in hook
  /\ hook' = hook \ {e}
  /\ UNCHANGED <<export, task, sweep, served>>

Downloadable(e) == export[e].status = "ready" /\ export[e].token /\ ~export[e].expired

\* (Mutant.)  The token survives the download.
KeptToken(e) == export[e].token

TokenAfter(e) == FALSE

\* ExportDownloadView, one transaction under the row's lock.  Disposal may fail and
\* be logged, and so may the opening of the file: the token is spent all the same.
\* A request past its expiry is answered 404, which rolls everything back.
Download(e) ==
  /\ Downloadable(e)
  /\ \E doc \in {export[e].doc, "disposed"} :
       export' = [export EXCEPT ![e].status = "delivered", ![e].token = TokenAfter(e), ![e].doc = doc]
  /\ served' \in {served, [served EXCEPT ![e] = @ + 1]}
  /\ UNCHANGED <<hook, task, sweep>>

\* Seven days have passed.
Expires(e) ==
  /\ export[e].status = "ready" /\ ~export[e].expired /\ task[e].pc = "off"
  /\ export' = [export EXCEPT ![e].expired = TRUE]
  /\ UNCHANGED <<hook, task, sweep, served>>

----------------------------------------------------------------------------
(* process_data_export.                                                    *)

TaskTo(e, pc) == task' = [task EXCEPT ![e].pc = pc]

Terminal(e) == export[e].status \in Final \cup {"ready"}

TaskReads(e) ==
  /\ task[e].pc = "queued"
  /\ IF Terminal(e) THEN task' = [task EXCEPT ![e] = NoTask]
     ELSE TaskTo(e, IF export[e].doc # "none" THEN "reuse" ELSE "start")
  /\ UNCHANGED <<export, hook, sweep, served>>

\* M-06: the archive of an earlier run is used.
TaskReuses(e) ==
  /\ task[e].pc = "reuse"
  /\ export' = [export EXCEPT ![e].status = "ready", ![e].expired = FALSE]
  /\ TaskTo(e, "notify")
  /\ UNCHANGED <<hook, sweep, served>>

\* The constraint refuses a retry while another request is active.
TaskStarts(e) ==
  /\ task[e].pc = "start" /\ ~OthersActive(e)
  /\ export' = [export EXCEPT ![e].status = "processing"]
  /\ TaskTo(e, "build")
  /\ UNCHANGED <<hook, sweep, served>>

\* The legacy file, the document and its own file, none of which the row knows yet:
\* what a run that ends here has written stays in the storage.
TaskWrites(e) ==
  /\ task[e].pc = "build"
  /\ TaskTo(e, "made")
  /\ UNCHANGED <<export, hook, sweep, served>>

\* The request and its document in one transaction; the legacy file is removed.
TaskSavesReady(e) ==
  /\ task[e].pc = "made"
  /\ export' = [export EXCEPT ![e].status = "ready", ![e].doc = "kept", ![e].expired = FALSE]
  /\ TaskTo(e, "notify")
  /\ UNCHANGED <<hook, sweep, served>>

TaskEnds(e) ==
  /\ task[e].pc = "notify"
  /\ task' = [task EXCEPT ![e] = NoTask]
  /\ UNCHANGED <<export, hook, sweep, served>>

Running(e) == task[e].pc \notin {"off", "queued", "retry"}

\* Any exception, of the save above too: an UPDATE without a condition, then a retry.
TaskRaises(e) ==
  /\ Running(e)
  /\ export' = [export EXCEPT ![e].status = "failed"]
  /\ TaskTo(e, "retry")
  /\ UNCHANGED <<hook, sweep, served>>

TaskRetries(e) ==
  /\ task[e].pc = "retry"
  /\ task' = [task EXCEPT ![e] = IF @.tries < MaxRetries THEN [pc |-> "queued", tries |-> @.tries + 1]
                                 ELSE NoTask]
  /\ UNCHANGED <<export, hook, sweep, served>>

\* SoftTimeLimitExceeded: no retry.
TaskTimesOut(e) ==
  /\ Running(e)
  /\ export' = [export EXCEPT ![e].status = "failed"]
  /\ task' = [task EXCEPT ![e] = NoTask]
  /\ UNCHANGED <<hook, sweep, served>>

TaskLost(e) ==
  /\ Running(e) \/ task[e].pc = "retry"
  /\ task' = [task EXCEPT ![e] = NoTask]
  /\ UNCHANGED <<export, hook, sweep, served>>

----------------------------------------------------------------------------
(* cleanup_export_files.                                                   *)

\* (Mutant.)  Whatever is ready.
ReadyOnes == {e \in Exports : export[e].status = "ready"}

Overdue == {e \in Exports : export[e].status = "ready" /\ export[e].expired}

SweepStarts ==
  /\ sweep.pc = "off"
  /\ sweep' = [pc |-> "expire", at |-> None, batch |-> Overdue]
  /\ UNCHANGED <<export, hook, task, served>>

\* mark_purpose_fulfilled, whose refusal is logged.
SweepDisposes(e) ==
  /\ sweep.pc = "expire" /\ e \in sweep.batch /\ sweep.at = None
  /\ \E doc \in {export[e].doc, "disposed"} : export' = [export EXCEPT ![e].doc = doc]
  /\ sweep' = [sweep EXCEPT !.at = e]
  /\ UNCHANGED <<hook, task, served>>

SweepExpires(e) ==
  /\ sweep.at = e
  /\ export' = [export EXCEPT ![e].status = "expired"]
  /\ sweep' = [sweep EXCEPT !.at = None, !.batch = @ \ {e}]
  /\ UNCHANGED <<hook, task, served>>

\* Two hours count from the request, not from the start of its processing.
Stuck == {e \in Exports : export[e].status = "processing"}

SweepFinds(stuck) ==
  /\ sweep.pc = "expire" /\ sweep.batch = {}
  /\ sweep' = [pc |-> "stuck", at |-> None, batch |-> stuck]
  /\ UNCHANGED <<export, hook, task, served>>

SweepFails(e) ==
  /\ sweep.pc = "stuck" /\ e \in sweep.batch
  /\ export' = [export EXCEPT ![e].status = "failed"]
  /\ sweep' = [sweep EXCEPT !.batch = @ \ {e}]
  /\ UNCHANGED <<hook, task, served>>

SweepEnds ==
  /\ sweep.pc = "stuck" /\ sweep.batch = {}
  /\ sweep' = NoSweep
  /\ UNCHANGED <<export, hook, task, served>>

SweepLost ==
  /\ sweep # NoSweep
  /\ sweep' = NoSweep
  /\ UNCHANGED <<export, hook, task, served>>

----------------------------------------------------------------------------
TaskStep(e) ==
  \/ TaskReads(e) \/ TaskReuses(e) \/ TaskStarts(e) \/ TaskWrites(e) \/ TaskSavesReady(e)
  \/ TaskEnds(e) \/ TaskRaises(e) \/ TaskRetries(e) \/ TaskTimesOut(e) \/ TaskLost(e)

ExportNext ==
  \/ \E e \in Exports :
       \/ RequestExport(e) \/ RunHook(e) \/ HookLost(e) \/ Download(e) \/ Expires(e)
       \/ TaskStep(e)
       \/ SweepDisposes(e) \/ SweepExpires(e) \/ SweepFails(e)
  \/ SweepStarts \/ SweepEnds \/ SweepLost
  \/ \E stuck \in SUBSET Stuck : SweepFinds(stuck)

ExportSpec == ExportInit /\ [][ExportNext]_exportVars

----------------------------------------------------------------------------
(* Properties.                                                             *)

\* An archive is handed out at most once, although task and clean-up write the
\* status of a row they read before, and a retry makes a delivered one ready again
\* (ExportDownloadView, process_data_export).
ServedOnce == \A e \in Exports : served[e] <= 1

\* What the citizen can download is there: no clean-up that read the row earlier has
\* disposed of its document (cleanup_export_files, process_data_export).
ReadyIsWhole == \A e \in Exports : Downloadable(e) => export[e].doc = "kept"
=============================================================================
