--------------------------- MODULE DocumentsProofs ---------------------------
(***************************************************************************)
(* Proofs about Documents, for any documents, chains, processes, retries   *)
(* and faults: types, the moves of a document's status, that an active     *)
(* document has its file, and the one way an infected file can be active.  *)
(*                                                                         *)
(* Every job that touches the storage without the row's lock (Unlink,      *)
(* CleanupPurge, EraseObject) holds a fact it learnt under the lock; the   *)
(* invariant says that the fact is one the status cannot leave again, or   *)
(* that the document was confirmed after its window.                       *)
(***************************************************************************)
EXTENDS Documents, TLAPS

\* Statuses a confirmed document goes through, for ever.
Seen == {"scanning", "active", "quarantined", "deleted", "purged", "removed"}

\* What a purge finds of its document.
Gone == {"deleted", "purged", "removed"}

\* What a step does to the statuses: StatusMoves.
Moves ==
  \A d \in Docs :
     \/ row'[d].status = Status(d)
     \/ <<Status(d), row'[d].status>> \in Lifecycle
     \/ row'[d].status = "removed" /\ Status(d) # "purged" /\ d \in tardy

\* Where the file of a document is, by its status.
Kept(d) ==
  /\ Status(d) = "pending_upload" => row[d].key = "quarantine"
  /\ Status(d) = "scanning" => <<d, "quarantine">> \in objects \/ d \in tardy
  /\ Status(d) = "active" =>
       (row[d].key = "active" /\ <<d, "active">> \in objects) \/ d \in tardy
  /\ <<d, "active">> \in objects \cap infected => d \in swapped
  /\ purged[d] = IF Status(d) = "purged" THEN 1 ELSE 0

KeptInv == \A d \in Docs : Kept(d)

\* The object that a worker found clean is still that one, or was posted again.
Clean(d) == <<d, "quarantine">> \notin infected \/ d \in swapped

\* What a worker knows of its document.
Knows(w) ==
  worker[w].pc # "idle" =>
    /\ worker[w].doc \in Docs /\ Status(worker[w].doc) \in Seen
    /\ worker[w].pc = "unlink" => Status(worker[w].doc) # "scanning"
    /\ worker[w].pc = "clean" => Clean(worker[w].doc)

TaskInv ==
  /\ \A d \in hooks : Status(d) \in Seen
  /\ \A m \in messages : Status(m[1]) \in Seen
  /\ \A w \in Workers : Knows(w)

\* What the two jobs that erase objects know.
ChunkInv ==
  \A d \in cleaner.chunk :
     /\ d \in late /\ Status(d) # "purged"
     /\ Status(d) \in {"pending_upload", "removed"} \/ d \in tardy

PurgeInv ==
  \A p \in Purgers :
     purger[p].pc # "off" =>
       purger[p].doc \in Docs /\ Status(purger[p].doc) \in Gone /\ purger[p].doc \notin cleaner.chunk

IInv == TypeOK /\ KeptInv /\ TaskInv /\ ChunkInv /\ PurgeInv

----------------------------------------------------------------------------
LEMMA InitInv == Init => IInv
<1> SUFFICES ASSUME Init PROVE IInv
  OBVIOUS
<1>1. TypeOK
  BY DocumentAssumption DEF Init, TypeOK, Row, ScanStatus, Prefixes, Idle, Off, Free
<1>2. \A d \in Docs : Status(d) = "absent"  BY DEF Init, Status
<1>3. KeptInv  BY <1>2 DEF KeptInv, Kept, Init
<1>4. TaskInv  BY DEF TaskInv, Knows, Init, Idle
<1>5. ChunkInv /\ PurgeInv  BY DEF ChunkInv, PurgeInv, Init, Off, Free
<1> QED  BY <1>1, <1>3, <1>4, <1>5 DEF IInv

----------------------------------------------------------------------------
(* Types and moves, per kind of step.                                      *)

\* One row changes.
LEMMA RowChange ==
  ASSUME row \in [Docs -> Row], NEW d \in Docs, NEW r \in Row,
         row' = [row EXCEPT ![d] = r],
         r.status = Status(d) \/ <<Status(d), r.status>> \in Lifecycle
  PROVE  row' \in [Docs -> Row] /\ Moves
  BY DEF Moves, Status

\* A status is set.
LEMMA StatusChange ==
  ASSUME row \in [Docs -> Row], NEW d \in Docs, NEW s \in ScanStatus,
         SetStatus(d, s), <<Status(d), s>> \in Lifecycle
  PROVE  /\ row' \in [Docs -> Row] /\ Moves
         /\ row' = [row EXCEPT ![d] = [row[d] EXCEPT !.status = s]]
<1>1. row' = [row EXCEPT ![d] = [row[d] EXCEPT !.status = s]]  BY DEF SetStatus
<1>2. [row[d] EXCEPT !.status = s] \in Row  BY DEF Row
<1>3. [row[d] EXCEPT !.status = s].status = s  BY DEF Row
<1> QED  BY <1>1, <1>2, <1>3, RowChange

LEMMA NoRowChange ==
  ASSUME row \in [Docs -> Row], UNCHANGED row
  PROVE  row' \in [Docs -> Row] /\ Moves
  BY DEF Moves, Status

\* A status never returns: what Lifecycle says of a step that moves inside it.
LEMMA MovesFacts ==
  ASSUME Moves, NEW d \in Docs
  PROVE  /\ Status(d) \in Seen => Status(d)' \in Seen
         /\ Status(d) \in Seen /\ Status(d) # "scanning" => Status(d)' # "scanning"
         /\ Status(d) \in Gone => Status(d)' \in Gone
         /\ Status(d) = "removed" => Status(d)' = "removed"
  BY DEF Moves, Status, Seen, Gone, Lifecycle

----------------------------------------------------------------------------
(* What a step must show, when it moves statuses that way.                 *)

LEMMA TaskFrame ==
  ASSUME IInv, Moves,
         \A d \in Docs : (\E w \in Workers : worker[w].pc = "clean" /\ worker[w].doc = d)
                        => (Clean(d) => Clean(d)'),
         \A d \in hooks' : d \in hooks \/ (d \in Docs /\ Status(d)' \in Seen),
         \A m \in messages' : m \in messages \/ Status(m[1])' \in Seen,
         \A w \in Workers : worker'[w] = worker[w] \/ Knows(w)'
  PROVE  TaskInv'
<1>1. \A d \in hooks' : Status(d)' \in Seen
  BY MovesFacts DEF IInv, TypeOK, TaskInv
<1>2. \A m \in messages' : Status(m[1])' \in Seen
  <2> SUFFICES ASSUME NEW m \in messages PROVE Status(m[1])' \in Seen
    OBVIOUS
  <2>1. m[1] \in Docs /\ Status(m[1]) \in Seen  BY DEF IInv, TypeOK, TaskInv
  <2> QED  BY <2>1, MovesFacts
<1>3. \A w \in Workers : Knows(w)'
  <2> SUFFICES ASSUME NEW w \in Workers, worker'[w] = worker[w] PROVE Knows(w)'
    OBVIOUS
  <2>1. Knows(w)  BY DEF IInv, TaskInv
  <2> SUFFICES ASSUME worker[w].pc # "idle" PROVE Knows(w)'
    BY DEF Knows
  <2>6. PICK d : d = worker[w].doc  OBVIOUS
  <2>2. d \in Docs /\ Status(d) \in Seen  BY <2>1, <2>6 DEF Knows
  <2>3. /\ row'[d].status \in Seen
        /\ Status(d) # "scanning" => row'[d].status # "scanning"
    BY <2>2, MovesFacts DEF Status
  <2>4. worker[w].pc = "unlink" => Status(d) # "scanning"  BY <2>1, <2>6 DEF Knows
  <2>5. Status(worker[w].doc)' = row'[d].status  BY <2>6 DEF Status
  <2>7. worker[w].pc = "clean" => Clean(d)'  BY <2>1, <2>2, <2>6 DEF Knows
  <2>8. worker'[w].pc = worker[w].pc /\ worker'[w].doc = d  BY <2>6
  <2>9. Status(d)' = row'[d].status  BY DEF Status
  <2>10. /\ d \in Docs /\ Status(d)' \in Seen
         /\ worker[w].pc = "unlink" => Status(d)' # "scanning"
         /\ worker[w].pc = "clean" => Clean(d)'
    BY <2>2, <2>3, <2>4, <2>7, <2>9
  <2> QED  BY <2>8, <2>10 DEF Knows
<1> QED  BY <1>1, <1>2, <1>3 DEF TaskInv

\* A document of the clean-up is not purged, and leaves pending_upload only tardily.
ChunkKept ==
  \A d \in Docs :
     /\ Status(d)' = "purged" => Status(d) = "purged" \/ d \notin cleaner.chunk
     /\ Status(d) = "pending_upload" /\ d \in late =>
          Status(d)' \in {"pending_upload", "removed"} \/ d \in tardy'

LEMMA ChunkFrame ==
  ASSUME IInv, Moves, ChunkKept, cleaner'.chunk \subseteq cleaner.chunk, late \subseteq late',
         tardy \subseteq tardy'
  PROVE  ChunkInv'
<1> SUFFICES ASSUME NEW d \in cleaner.chunk
             PROVE  /\ d \in late' /\ Status(d)' # "purged"
                    /\ Status(d)' \in {"pending_upload", "removed"} \/ d \in tardy'
  BY DEF ChunkInv
<1>1. d \in Docs /\ d \in late /\ Status(d) # "purged"
      /\ (Status(d) \in {"pending_upload", "removed"} \/ d \in tardy)
  BY DEF IInv, TypeOK, ChunkInv
<1>2. Status(d)' # "purged"  BY <1>1 DEF ChunkKept
<1>3. Status(d)' \in {"pending_upload", "removed"} \/ d \in tardy'
  <2>1. CASE d \in tardy  BY <2>1
  <2>2. CASE Status(d) = "removed"  BY <1>1, <2>2, MovesFacts
  <2>3. CASE Status(d) = "pending_upload"  BY <1>1, <2>3 DEF ChunkKept
  <2> QED  BY <1>1, <2>1, <2>2, <2>3
<1> QED  BY <1>1, <1>2, <1>3

LEMMA NoChunkChange ==
  ASSUME UNCHANGED row
  PROVE  ChunkKept
  BY DEF ChunkKept, Status

LEMMA PurgeFrame ==
  ASSUME IInv, Moves,
         cleaner'.chunk \subseteq cleaner.chunk,
         \A p \in Purgers : \/ purger'[p].pc = "off"
                            \/ purger[p].pc # "off" /\ purger'[p].doc = purger[p].doc
  PROVE  PurgeInv'
<1> SUFFICES ASSUME NEW p \in Purgers, purger'[p].pc # "off"
             PROVE  /\ purger'[p].doc \in Docs /\ row'[purger'[p].doc].status \in Gone
                    /\ purger'[p].doc \notin cleaner'.chunk
  BY DEF PurgeInv, Status
<1>1. PICK d : d = purger[p].doc /\ purger'[p].doc = d  OBVIOUS
<1>2. d \in Docs /\ Status(d) \in Gone /\ d \notin cleaner.chunk  BY <1>1 DEF IInv, PurgeInv
<1>3. row'[d].status \in Gone  BY <1>2, MovesFacts DEF Status
<1> QED  BY <1>1, <1>2, <1>3

LEMMA KeptFrame ==
  ASSUME IInv, UNCHANGED <<row, objects, infected, purged>>, tardy \subseteq tardy',
         swapped \subseteq swapped'
  PROVE  KeptInv'
  BY DEF IInv, KeptInv, Kept, Status

\* A document whose status alone moves, not to scanning or purged.
LEMMA KeptStatus ==
  ASSUME IInv, NEW d \in Docs, NEW s \in {"quarantined", "deleted"},
         row' = [row EXCEPT ![d] = [row[d] EXCEPT !.status = s]], Status(d) # "purged",
         UNCHANGED <<objects, infected, purged, swapped>>, tardy \subseteq tardy'
  PROVE  KeptInv'
<1> SUFFICES ASSUME NEW e \in Docs PROVE Kept(e)'
  BY DEF KeptInv
<1>1. Kept(e) /\ Kept(d)  BY DEF IInv, KeptInv
<1>2. CASE e # d
  <2>1. row'[e] = row[e]  BY <1>2 DEF IInv, TypeOK
  <2> QED  BY <1>1, <2>1 DEF Kept, Status
<1>3. CASE e = d
  <2>1. row'[e].status = s  BY <1>3 DEF IInv, TypeOK, Row
  <2> QED  BY <1>1, <1>3, <2>1 DEF Kept, Status
<1> QED  BY <1>2, <1>3

----------------------------------------------------------------------------
(* Upload, versions and confirmation.                                      *)

\* A row appears or disappears before its confirmation.
LEMMA RowStep ==
  ASSUME IInv, NEW d \in Docs, NEW h \in BOOLEAN, NEW r \in {Uploaded(h), Removed},
         row' = [row EXCEPT ![d] = r], <<Status(d), r.status>> \in Lifecycle,
         UNCHANGED <<objects, infected, late, tardy, swapped, unhandled, tasks, sweeps>>
  PROVE  IInv'
<1>1. r \in Row
  <2>1. Uploaded(h) \in Row  BY DEF Uploaded, Row, ScanStatus, Prefixes
  <2>2. Removed \in Row  BY DEF Removed, Row, ScanStatus, Prefixes
  <2> QED  BY <2>1, <2>2
<1>2. row' \in [Docs -> Row] /\ Moves  BY <1>1, RowChange DEF IInv, TypeOK
<1>3. TypeOK'  BY <1>2 DEF IInv, TypeOK, tasks, sweeps
<1>4. KeptInv'
  <2> SUFFICES ASSUME NEW e \in Docs PROVE Kept(e)'
    BY DEF KeptInv
  <2>1. Kept(e)  BY DEF IInv, KeptInv
  <2>2. CASE e # d
    <3>1. row'[e] = row[e]  BY <2>2 DEF IInv, TypeOK
    <3> QED  BY <2>1, <3>1 DEF Kept, Status, sweeps
  <2>3. CASE e = d
    <3>1. row'[e] = r  BY <2>3 DEF IInv, TypeOK
    <3>2. r.status \in {"pending_upload", "removed"} /\ r.key \in {"quarantine", None}
          /\ (r.status = "pending_upload" => r.key = "quarantine")
      BY DEF Uploaded, Removed
    <3>3. Status(e) # "purged"  BY <2>3, <3>2 DEF Lifecycle
    <3> QED  BY <2>1, <3>1, <3>2, <3>3 DEF Kept, Status, sweeps
  <2> QED  BY <2>2, <2>3
<1>5. TaskInv'  BY <1>2, TaskFrame DEF tasks, Clean
<1>6. ChunkKept
  BY DEF IInv, TypeOK, Status, Uploaded, Removed, ChunkKept
<1>7. ChunkInv'  BY <1>2, <1>6, ChunkFrame DEF sweeps
<1>8. PurgeInv'
  <2>1. UNCHANGED <<cleaner, purger>>  BY DEF sweeps
  <2> QED  BY <1>2, <2>1, PurgeFrame
<1> QED  BY <1>3, <1>4, <1>5, <1>7, <1>8 DEF IInv

LEMMA UploadSteps ==
  ASSUME IInv, NEW d \in Docs, ValidateUpload(d) \/ CreateNewVersion(d) \/ PresignFails(d)
  PROVE  IInv'
<1>1. CASE ValidateUpload(d)
  <2>1. <<Status(d), Uploaded(FALSE).status>> \in Lifecycle
    BY <1>1 DEF ValidateUpload, Uploaded, Lifecycle
  <2> QED  BY <1>1, <2>1, RowStep DEF ValidateUpload, marks
<1>2. CASE CreateNewVersion(d)
  <2>1. row[Root[d]].hold \in BOOLEAN  BY DocumentAssumption DEF IInv, TypeOK, Row
  <2>2. <<Status(d), Uploaded(row[Root[d]].hold).status>> \in Lifecycle
    BY <1>2 DEF CreateNewVersion, Uploaded, Lifecycle
  <2> QED  BY <1>2, <2>1, <2>2, RowStep DEF CreateNewVersion, marks
<1>3. CASE PresignFails(d)
  <2>1. <<Status(d), Removed.status>> \in Lifecycle
    BY <1>3 DEF PresignFails, Removed, Lifecycle
  <2> QED  BY <1>3, <2>1, RowStep DEF PresignFails, marks
<1> QED  BY <1>1, <1>2, <1>3

\* A post replaces what a worker may have found clean: it is then marked.
LEMMA BrowserPostStep ==
  ASSUME IInv, NEW d \in Docs, BrowserPost(d)
  PROVE  IInv'
<1>1. /\ objects' = objects \cup {<<d, "quarantine">>}
      /\ UNCHANGED <<row, late, tardy, unhandled, tasks, sweeps>>
  BY DEF BrowserPost
<1>2. /\ infected' = infected \cup {<<d, "quarantine">>} \/ infected' = infected \ {<<d, "quarantine">>}
      /\ swapped' = IF \E w \in Workers : worker[w].doc = d /\ worker[w].pc = "clean"
                    THEN swapped \cup {d} ELSE swapped
  BY DEF BrowserPost
<1>3. Moves /\ ChunkKept  BY <1>1, NoRowChange, NoChunkChange DEF IInv, TypeOK
<1>4. TypeOK'  BY <1>1, <1>2 DEF IInv, TypeOK, tasks, sweeps, Prefixes
<1>5. KeptInv'
  <2> SUFFICES ASSUME NEW e \in Docs PROVE Kept(e)'
    BY DEF KeptInv
  <2>1. Kept(e)  BY DEF IInv, KeptInv
  <2>2. /\ <<e, "active">> \in objects' <=> <<e, "active">> \in objects
        /\ <<e, "active">> \in infected' <=> <<e, "active">> \in infected
        /\ objects \subseteq objects' /\ swapped \subseteq swapped'
    BY <1>1, <1>2
  <2> QED  BY <1>1, <2>1, <2>2 DEF Kept, Status, sweeps
<1>6. \A e \in Docs : (\E w \in Workers : worker[w].pc = "clean" /\ worker[w].doc = e)
                     => (Clean(e) => Clean(e)')
  <2> SUFFICES ASSUME NEW e \in Docs, NEW w \in Workers, worker[w].pc = "clean",
                      worker[w].doc = e, Clean(e)
               PROVE  Clean(e)'
    OBVIOUS
  <2>1. CASE e = d  BY <1>2, <2>1 DEF Clean
  <2>2. CASE e # d
    <3>1. <<e, "quarantine">> \in infected' <=> <<e, "quarantine">> \in infected  BY <1>2, <2>2
    <3>2. swapped \subseteq swapped'  BY <1>2
    <3> QED  BY <3>1, <3>2 DEF Clean
  <2> QED  BY <2>1, <2>2
<1>7. UNCHANGED <<hooks, messages, worker>>  BY <1>1 DEF tasks
<1>8. TaskInv'  BY <1>3, <1>6, <1>7, TaskFrame
<1>9. ChunkInv'  BY <1>1, <1>3, ChunkFrame DEF sweeps
<1>10. PurgeInv'
  <2>1. UNCHANGED <<cleaner, purger>>  BY <1>1 DEF sweeps
  <2> QED  BY <1>3, <2>1, PurgeFrame
<1> QED  BY <1>4, <1>5, <1>8, <1>9, <1>10 DEF IInv

LEMMA WindowClosesStep ==
  ASSUME IInv, NEW d \in Docs, WindowCloses(d)
  PROVE  IInv'
<1>1. late' = late \cup {d} /\ UNCHANGED <<row, objects, infected, tardy, swapped, unhandled, tasks, sweeps>>
  BY DEF WindowCloses, marks
<1>2. Moves  BY <1>1, NoRowChange DEF IInv, TypeOK
<1>3. TypeOK'  BY <1>1 DEF IInv, TypeOK, tasks, sweeps
<1>4. KeptInv'  BY <1>1, KeptFrame DEF sweeps
<1>5. TaskInv'  BY <1>1, <1>2, TaskFrame DEF tasks, Clean
<1>6. ChunkInv'  BY <1>1, <1>2, NoChunkChange, ChunkFrame DEF sweeps
<1>7. PurgeInv'
  <2>1. UNCHANGED <<cleaner, purger>>  BY <1>1 DEF sweeps
  <2> QED  BY <1>2, <2>1, PurgeFrame
<1> QED  BY <1>3, <1>4, <1>5, <1>6, <1>7 DEF IInv

\* The clean-up may have read the row only if the confirmation is tardy.
LEMMA ConfirmStep ==
  ASSUME IInv, NEW d \in Docs, ConfirmUpload(d)
  PROVE  IInv'
<1>1. /\ Status(d) = "pending_upload" /\ <<d, row[d].key>> \in objects
      /\ SetStatus(d, "scanning")
      /\ hooks' = hooks \cup {d} /\ tardy' = tardy \cup ({d} \cap late)
      /\ UNCHANGED <<objects, infected, late, swapped, unhandled, messages, worker, faults, sweeps>>
  BY DEF ConfirmUpload, LeavesPending
<1>2. "scanning" \in ScanStatus /\ <<Status(d), "scanning">> \in Lifecycle
  BY <1>1 DEF ScanStatus, Lifecycle
<1>3. /\ row' \in [Docs -> Row] /\ Moves
      /\ row' = [row EXCEPT ![d] = [row[d] EXCEPT !.status = "scanning"]]
  BY <1>1, <1>2, StatusChange DEF IInv, TypeOK
<1>4. row'[d].status = "scanning" /\ \A e \in Docs : e # d => row'[e] = row[e]
  BY <1>3 DEF IInv, TypeOK, Row
<1>5. TypeOK'  BY <1>1, <1>3 DEF IInv, TypeOK, sweeps
<1>6. KeptInv'
  <2> SUFFICES ASSUME NEW e \in Docs PROVE Kept(e)'
    BY DEF KeptInv
  <2>1. Kept(e) /\ Kept(d)  BY DEF IInv, KeptInv
  <2>2. CASE e # d  BY <1>1, <1>4, <2>1, <2>2 DEF Kept, Status, sweeps
  <2>3. CASE e = d
    <3>1. <<d, "quarantine">> \in objects /\ purged[d] = 0  BY <1>1, <2>1 DEF Kept
    <3> QED  BY <1>1, <1>4, <2>1, <2>3, <3>1 DEF Kept, Status, sweeps
  <2> QED  BY <2>2, <2>3
<1>7. TaskInv'  BY <1>1, <1>3, <1>4, TaskFrame DEF Status, Seen, Clean
<1>8. ChunkKept  BY <1>1, <1>4 DEF ChunkKept, Status
<1>9. ChunkInv'  BY <1>1, <1>3, <1>8, ChunkFrame DEF sweeps
<1>10. PurgeInv'
  <2>1. UNCHANGED <<cleaner, purger>>  BY <1>1 DEF sweeps
  <2> QED  BY <1>3, <2>1, PurgeFrame
<1> QED  BY <1>5, <1>6, <1>7, <1>9, <1>10 DEF IInv

----------------------------------------------------------------------------
(* scan_document: steps that write no row and no object.                   *)

\* Tasks move on; rows, objects and the other jobs stay.
LEMMA QuietTask ==
  ASSUME IInv, UNCHANGED <<row, objects, infected, late, tardy, swapped, sweeps>>, TypeOK',
         \A d \in hooks' : d \in hooks,
         \A m \in messages' : m \in messages \/ Status(m[1]) \in Seen,
         \A w \in Workers : worker'[w] = worker[w] \/ Knows(w)'
  PROVE  IInv'
<1>1. Moves  BY NoRowChange DEF IInv, TypeOK
<1>2. KeptInv'  BY KeptFrame DEF sweeps
<1>3. \A m \in messages' : m \in messages \/ Status(m[1])' \in Seen  BY DEF Status
<1>4. TaskInv'  BY <1>1, <1>3, TaskFrame DEF Clean
<1>5. ChunkInv'  BY <1>1, NoChunkChange, ChunkFrame DEF sweeps
<1>6. PurgeInv'
  <2>1. UNCHANGED <<cleaner, purger>>  BY DEF sweeps
  <2> QED  BY <1>1, <2>1, PurgeFrame
<1> QED  BY <1>2, <1>4, <1>5, <1>6 DEF IInv

\* The states of a worker.
Pcs == {"idle", "retry", "scan", "clean", "threat", "failed", "unlink"}

LEMMA WorkerTyped ==
  ASSUME TypeOK, NEW w \in Workers, NEW pc \in Pcs, NEW d \in Docs \cup {None},
         NEW n \in 0 .. MaxRetries,
         worker' = [worker EXCEPT ![w] = [pc |-> pc, doc |-> d, retries |-> n]]
  PROVE  worker' \in [Workers -> [pc: Pcs, doc: Docs \cup {None}, retries: 0 .. MaxRetries]]
  BY DEF TypeOK, Pcs

\* What a step of one worker leaves of the others.
LEMMA OneWorker ==
  ASSUME TypeOK, NEW w \in Workers, NEW pc, NEW d, NEW n,
         worker' = [worker EXCEPT ![w] = [pc |-> pc, doc |-> d, retries |-> n]]
  PROVE  /\ worker'[w].pc = pc /\ worker'[w].doc = d
         /\ \A v \in Workers : v # w => worker'[v] = worker[v]
  BY DEF TypeOK

LEMMA FinishStep ==
  ASSUME IInv, NEW w \in Workers, Finish(w)
  PROVE  /\ worker' \in [Workers -> [pc: Pcs, doc: Docs \cup {None}, retries: 0 .. MaxRetries]]
         /\ \A v \in Workers : worker'[v] = worker[v] \/ Knows(v)'
<1>1. worker' = [worker EXCEPT ![w] = [pc |-> "idle", doc |-> None, retries |-> 0]]
  BY DEF Finish, Idle
<1>2. 0 \in 0 .. MaxRetries  BY DocumentAssumption
<1>3. worker' \in [Workers -> [pc: Pcs, doc: Docs \cup {None}, retries: 0 .. MaxRetries]]
  BY <1>1, <1>2, WorkerTyped DEF IInv, Pcs
<1>4. worker'[w].pc = "idle"  BY <1>1, OneWorker DEF IInv
<1>5. \A v \in Workers : worker'[v] = worker[v] \/ Knows(v)'
  BY <1>1, <1>4, OneWorker DEF IInv, Knows
<1> QED  BY <1>3, <1>5

\* A worker keeps its document and goes on.
LEMMA GotoStep ==
  ASSUME IInv, NEW w \in Workers, NEW pc \in Pcs, Goto(w, pc)
  PROVE  /\ worker' \in [Workers -> [pc: Pcs, doc: Docs \cup {None}, retries: 0 .. MaxRetries]]
         /\ worker'[w].pc = pc /\ worker'[w].doc = worker[w].doc
         /\ \A v \in Workers : v # w => worker'[v] = worker[v]
<1>1. worker' = [worker EXCEPT ![w].pc = pc]  BY DEF Goto
<1>2. worker \in [Workers -> [pc: Pcs, doc: Docs \cup {None}, retries: 0 .. MaxRetries]]
  BY DEF IInv, TypeOK, Pcs
<1> QED  BY <1>1, <1>2

LEMMA DispatchStep ==
  ASSUME IInv, NEW d \in Docs, DispatchScan(d) \/ HookLost(d)
  PROVE  IInv'
<1>1. CASE DispatchScan(d)
  <2>1. /\ d \in hooks /\ hooks' = hooks \ {d} /\ messages' = messages \cup {<<d, 0>>}
        /\ UNCHANGED <<row, objects, infected, late, tardy, swapped, unhandled, worker, faults, sweeps>>
    BY <1>1 DEF DispatchScan, marks
  <2>2. <<d, 0>> \in Docs \X (0 .. MaxRetries) /\ <<d, 0>>[1] = d
    BY DocumentAssumption
  <2>3. messages' \subseteq Docs \X (0 .. MaxRetries)  BY <2>1, <2>2 DEF IInv, TypeOK
  <2>4. TypeOK'  BY <2>1, <2>3 DEF IInv, TypeOK, sweeps
  <2>5. Status(d) \in Seen  BY <2>1 DEF IInv, TaskInv
  <2>6. \A m \in messages' : m \in messages \/ Status(m[1]) \in Seen  BY <2>1, <2>2, <2>5
  <2> QED  BY <2>1, <2>4, <2>6, QuietTask
<1>2. CASE HookLost(d)
  <2>1. /\ hooks' = hooks \ {d} /\ faults < MaxFaults /\ faults' = faults + 1
        /\ UNCHANGED <<row, objects, infected, late, tardy, swapped, unhandled, messages, worker, sweeps>>
    BY <1>2 DEF HookLost, Fault, marks
  <2>2. faults' \in 0 .. MaxFaults  BY <2>1, DocumentAssumption DEF IInv, TypeOK
  <2>3. TypeOK'  BY <2>1, <2>2 DEF IInv, TypeOK, sweeps
  <2> QED  BY <2>1, <2>3, QuietTask
<1> QED  BY <1>1, <1>2

LEMMA TakeStep ==
  ASSUME IInv, NEW w \in Workers, NEW m \in messages, Take(w, m)
  PROVE  /\ worker' \in [Workers -> [pc: Pcs, doc: Docs \cup {None}, retries: 0 .. MaxRetries]]
         /\ UNCHANGED row => \A v \in Workers : worker'[v] = worker[v] \/ Knows(v)'
<1>1. CASE UNCHANGED worker  BY <1>1 DEF IInv, TypeOK, Pcs
<1>2. ASSUME NEW pc \in {"scan", "retry"}, Become(w, pc, m[1], m[2])
      PROVE  /\ worker' \in [Workers -> [pc: Pcs, doc: Docs \cup {None}, retries: 0 .. MaxRetries]]
             /\ UNCHANGED row => \A v \in Workers : worker'[v] = worker[v] \/ Knows(v)'
  <2>1. PICK d, n : d = m[1] /\ n = m[2]  OBVIOUS
  <2>2. d \in Docs /\ n \in 0 .. MaxRetries /\ Status(d) \in Seen
    BY <2>1 DEF IInv, TypeOK, TaskInv
  <2>3. worker' = [worker EXCEPT ![w] = [pc |-> pc, doc |-> d, retries |-> n]]
    BY <1>2, <2>1 DEF Become
  <2>4. worker' \in [Workers -> [pc: Pcs, doc: Docs \cup {None}, retries: 0 .. MaxRetries]]
    BY <2>2, <2>3, WorkerTyped DEF IInv, Pcs
  <2>5. /\ worker'[w].pc = pc /\ worker'[w].doc = d
        /\ \A v \in Workers : v # w => worker'[v] = worker[v]
    BY <2>3, OneWorker DEF IInv
  <2>6. ASSUME UNCHANGED row PROVE Knows(w)'
    <3>1. row'[worker'[w].doc].status \in Seen  BY <2>2, <2>5, <2>6 DEF Status
    <3> QED  BY <2>2, <2>5, <3>1 DEF Knows, Status
  <2> QED  BY <2>4, <2>5, <2>6
<1> QED  BY <1>1, <1>2 DEF Take

LEMMA ReceiveSteps ==
  ASSUME IInv, NEW w \in Workers, NEW m \in messages, ReceiveScan(w, m) \/ ReceiveCopy(w, m)
  PROVE  IInv'
<1>1. CASE ReceiveScan(w, m)
  <2>1. /\ Take(w, m) /\ messages' = messages \ {m}
        /\ UNCHANGED <<row, objects, infected, late, tardy, swapped, unhandled, hooks, faults, sweeps>>
    BY <1>1 DEF ReceiveScan, marks
  <2>2. TypeOK'  BY <2>1, TakeStep DEF IInv, TypeOK, sweeps, Pcs
  <2> QED  BY <2>1, <2>2, TakeStep, QuietTask
<1>2. CASE ReceiveCopy(w, m)
  <2>1. /\ Take(w, m) /\ faults < MaxFaults /\ faults' = faults + 1
        /\ UNCHANGED <<row, objects, infected, late, tardy, swapped, unhandled, hooks, messages, sweeps>>
    BY <1>2 DEF ReceiveCopy, Fault, marks
  <2>2. faults' \in 0 .. MaxFaults  BY <2>1, DocumentAssumption DEF IInv, TypeOK
  <2>3. TypeOK'  BY <2>1, <2>2, TakeStep DEF IInv, TypeOK, sweeps, Pcs
  <2> QED  BY <2>1, <2>3, TakeStep, QuietTask
<1> QED  BY <1>1, <1>2

LEMMA ScanStep ==
  ASSUME IInv, NEW w \in Workers, Scan(w)
  PROVE  IInv'
<1>1. PICK pc \in {"clean", "threat"} :
        /\ Goto(w, pc) /\ (pc = "clean" => <<worker[w].doc, "quarantine">> \notin infected)
        /\ worker[w].pc = "scan"
        /\ UNCHANGED <<row, objects, infected, late, tardy, swapped, unhandled, hooks, messages, faults, sweeps>>
  BY DEF Scan, At, marks
<1>2. pc \in Pcs  BY DEF Pcs
<1>3. /\ worker' \in [Workers -> [pc: Pcs, doc: Docs \cup {None}, retries: 0 .. MaxRetries]]
      /\ worker'[w].pc = pc /\ worker'[w].doc = worker[w].doc
      /\ \A v \in Workers : v # w => worker'[v] = worker[v]
  BY <1>1, <1>2, GotoStep
<1>4. TypeOK'  BY <1>1, <1>3 DEF IInv, TypeOK, sweeps, Pcs
<1>5. Knows(w)'
  <2>1. worker[w].doc \in Docs /\ Status(worker[w].doc) \in Seen
    BY <1>1 DEF IInv, TaskInv, Knows
  <2> QED  BY <1>1, <1>3, <2>1 DEF Knows, Status, Clean
<1> QED  BY <1>1, <1>3, <1>4, <1>5, QuietTask

LEMMA RetryStep ==
  ASSUME IInv, NEW w \in Workers, Retry(w)
  PROVE  IInv'
<1>1. /\ worker[w].pc # "idle"
      /\ UNCHANGED <<row, objects, infected, late, tardy, swapped, unhandled, hooks, faults, sweeps>>
  BY DEF Retry, marks
<1>2. PICK d, n : d = worker[w].doc /\ n = worker[w].retries  OBVIOUS
<1>3. d \in Docs /\ Status(d) \in Seen /\ n \in 0 .. MaxRetries
  BY <1>1, <1>2 DEF IInv, TypeOK, TaskInv, Knows
<1>4. CASE Goto(w, "failed") /\ UNCHANGED messages
  <2>1. /\ worker' \in [Workers -> [pc: Pcs, doc: Docs \cup {None}, retries: 0 .. MaxRetries]]
        /\ worker'[w].pc = "failed" /\ worker'[w].doc = d
        /\ \A v \in Workers : v # w => worker'[v] = worker[v]
    BY <1>2, <1>4, GotoStep DEF Pcs
  <2>2. TypeOK'  BY <1>1, <1>4, <2>1 DEF IInv, TypeOK, sweeps, Pcs
  <2>3. Knows(w)'  BY <1>1, <1>3, <2>1 DEF Knows, Status
  <2> QED  BY <1>1, <1>4, <2>1, <2>2, <2>3, QuietTask
<1>5. CASE n # MaxRetries /\ messages' = messages \cup {<<d, n + 1>>} /\ Finish(w)
  <2>1. n + 1 \in 0 .. MaxRetries /\ <<d, n + 1>>[1] = d  BY <1>3, <1>5, DocumentAssumption
  <2>2. messages' \subseteq Docs \X (0 .. MaxRetries)  BY <1>3, <1>5, <2>1 DEF IInv, TypeOK
  <2>3. TypeOK'  BY <1>1, <1>5, <2>2, FinishStep DEF IInv, TypeOK, sweeps, Pcs
  <2>4. \A m \in messages' : m \in messages \/ Status(m[1]) \in Seen  BY <1>3, <1>5, <2>1
  <2> QED  BY <1>1, <1>5, <2>3, <2>4, FinishStep, QuietTask
<1> QED  BY <1>2, <1>4, <1>5 DEF Retry, Exhausted

LEMMA WorkerLostStep ==
  ASSUME IInv, NEW w \in Workers, WorkerLost(w)
  PROVE  IInv'
<1>1. PICK d, n : d = worker[w].doc /\ n = worker[w].retries  OBVIOUS
<1>2. /\ worker[w].pc # "idle" /\ faults < MaxFaults /\ faults' = faults + 1
      /\ messages' = messages \cup {<<d, n>>} /\ Finish(w)
      /\ UNCHANGED <<row, objects, infected, late, tardy, swapped, unhandled, hooks, sweeps>>
  BY <1>1 DEF WorkerLost, At, Fault, marks
<1>3. d \in Docs /\ Status(d) \in Seen /\ n \in 0 .. MaxRetries /\ <<d, n>>[1] = d
  BY <1>1, <1>2 DEF IInv, TypeOK, TaskInv, Knows
<1>4. messages' \subseteq Docs \X (0 .. MaxRetries)  BY <1>2, <1>3 DEF IInv, TypeOK
<1>5. faults' \in 0 .. MaxFaults  BY <1>2, DocumentAssumption DEF IInv, TypeOK
<1>6. TypeOK'  BY <1>2, <1>4, <1>5, FinishStep DEF IInv, TypeOK, sweeps, Pcs
<1>7. \A m \in messages' : m \in messages \/ Status(m[1]) \in Seen  BY <1>2, <1>3
<1> QED  BY <1>2, <1>6, <1>7, FinishStep, QuietTask

----------------------------------------------------------------------------
(* scan_document: steps that write the row or the storage.                 *)

\* What is left to show once rows, objects and the worker are dealt with.
LEMMA WriteStep ==
  ASSUME IInv, TypeOK', KeptInv', Moves,
         UNCHANGED <<late, hooks, messages, sweeps>>, tardy \subseteq tardy',
         \A d \in Docs : Clean(d) => Clean(d)', ChunkKept,
         \A v \in Workers : worker'[v] = worker[v] \/ Knows(v)'
  PROVE  IInv'
<1>1. TaskInv'
  <2>1. \A d \in hooks' : d \in hooks \/ (d \in Docs /\ Status(d)' \in Seen)  OBVIOUS
  <2>2. \A m \in messages' : m \in messages \/ Status(m[1])' \in Seen  OBVIOUS
  <2> QED  BY <2>1, <2>2, TaskFrame
<1>2. ChunkInv'  BY ChunkFrame DEF sweeps
<1>3. PurgeInv'
  <2>1. UNCHANGED <<cleaner, purger>>  BY DEF sweeps
  <2> QED  BY <2>1, PurgeFrame
<1> QED  BY <1>1, <1>2, <1>3 DEF IInv

\* The row of d gets status s; nothing else of it is looked at here.
LEMMA OneStatus ==
  ASSUME IInv, NEW d \in Docs, NEW s, s # "purged",
         Status(d) # "pending_upload" \/ d \notin late \/ d \in tardy',
         row' = [row EXCEPT ![d] = [row[d] EXCEPT !.status = s]]
  PROVE  row'[d].status = s /\ ChunkKept
<1>1. row'[d].status = s  BY DEF IInv, TypeOK, Row
<1>2. \A e \in Docs : e # d => row'[e] = row[e]  BY DEF IInv, TypeOK
<1> QED  BY <1>1, <1>2 DEF Status, ChunkKept

LEMMA OnFailureStep ==
  ASSUME IInv, NEW w \in Workers, OnFailure(w)
  PROVE  IInv'
<1>1. PICK d : d = worker[w].doc  OBVIOUS
<1>2. /\ worker[w].pc = "failed" /\ Finish(w)
      /\ UNCHANGED <<objects, infected, late, tardy, swapped, hooks, messages, faults, sweeps>>
  BY DEF OnFailure, At
<1>3. d \in Docs  BY <1>1, <1>2 DEF IInv, TaskInv, Knows
<1>7. unhandled' = unhandled \/ unhandled' = unhandled \cup {d}  BY <1>1 DEF OnFailure
<1>8. unhandled' \subseteq Docs  BY <1>3, <1>7 DEF IInv, TypeOK
<1>4. CASE Unjudged(d) /\ SetStatus(d, "quarantined")
  <2>1. "quarantined" \in ScanStatus /\ <<Status(d), "quarantined">> \in Lifecycle
    BY <1>4 DEF ScanStatus, Lifecycle, Unjudged
  <2>2. /\ row' \in [Docs -> Row] /\ Moves
        /\ row' = [row EXCEPT ![d] = [row[d] EXCEPT !.status = "quarantined"]]
    BY <1>3, <1>4, <2>1, StatusChange DEF IInv, TypeOK
  <2>3. TypeOK'  BY <1>2, <1>8, <2>2, FinishStep DEF IInv, TypeOK, sweeps, Pcs
  <2>4. Status(d) \notin {"purged", "pending_upload"} /\ UNCHANGED purged
    BY <1>2, <1>4 DEF Unjudged, sweeps
  <2>5. KeptInv'  BY <1>2, <1>3, <2>2, <2>4, KeptStatus
  <2>6. ChunkKept  BY <1>3, <2>2, <2>4, OneStatus
  <2> QED  BY <1>2, <2>2, <2>3, <2>5, <2>6, FinishStep, WriteStep DEF Clean
<1>5. CASE UNCHANGED row
  <2>1. TypeOK'  BY <1>2, <1>5, <1>8, FinishStep DEF IInv, TypeOK, sweeps, Pcs
  <2> QED  BY <1>2, <1>5, <2>1, FinishStep, QuietTask
<1> QED  BY <1>1, <1>4, <1>5 DEF OnFailure

LEMMA MarkQuarantinedStep ==
  ASSUME IInv, NEW w \in Workers, MarkQuarantined(w)
  PROVE  IInv'
<1>1. PICK d : d = worker[w].doc  OBVIOUS
<1>2. /\ worker[w].pc = "threat"
      /\ UNCHANGED <<objects, infected, late, tardy, swapped, unhandled, hooks, messages, faults, sweeps>>
  BY DEF MarkQuarantined, At, marks
<1>3. d \in Docs  BY <1>1, <1>2 DEF IInv, TaskInv, Knows
<1>4. CASE Unjudged(d) /\ SetStatus(d, "quarantined") /\ Goto(w, "unlink")
  <2>1. "quarantined" \in ScanStatus /\ <<Status(d), "quarantined">> \in Lifecycle
    BY <1>4 DEF ScanStatus, Lifecycle, Unjudged
  <2>2. /\ row' \in [Docs -> Row] /\ Moves
        /\ row' = [row EXCEPT ![d] = [row[d] EXCEPT !.status = "quarantined"]]
    BY <1>3, <1>4, <2>1, StatusChange DEF IInv, TypeOK
  <2>3. /\ worker' \in [Workers -> [pc: Pcs, doc: Docs \cup {None}, retries: 0 .. MaxRetries]]
        /\ worker'[w].pc = "unlink" /\ worker'[w].doc = d
        /\ \A v \in Workers : v # w => worker'[v] = worker[v]
    BY <1>1, <1>4, GotoStep DEF Pcs
  <2>4. TypeOK'  BY <1>2, <2>2, <2>3 DEF IInv, TypeOK, sweeps, Pcs
  <2>5. Status(d) \notin {"purged", "pending_upload"} /\ UNCHANGED purged
    BY <1>2, <1>4 DEF Unjudged, sweeps
  <2>6. KeptInv'  BY <1>2, <1>3, <2>2, <2>5, KeptStatus
  <2>7. row'[d].status = "quarantined" /\ ChunkKept  BY <1>3, <2>2, <2>5, OneStatus
  <2>8. Knows(w)'  BY <1>3, <2>3, <2>7 DEF Knows, Status, Seen
  <2> QED  BY <1>2, <2>2, <2>3, <2>4, <2>6, <2>7, <2>8, WriteStep DEF Clean
<1>5. CASE Finish(w) /\ UNCHANGED row
  <2>1. TypeOK'  BY <1>2, <1>5, FinishStep DEF IInv, TypeOK, sweeps, Pcs
  <2> QED  BY <1>2, <1>5, <2>1, FinishStep, QuietTask
<1> QED  BY <1>1, <1>4, <1>5 DEF MarkQuarantined

\* A copy leaves the source, and is infected only as its source is.
LEMMA CopyFacts ==
  ASSUME IInv, NEW d \in Docs, Copy(d), Clean(d)
  PROVE  /\ objects' \subseteq Docs \X Prefixes /\ infected' \subseteq Docs \X Prefixes
         /\ objects \subseteq objects' /\ <<d, "active">> \in objects'
         /\ <<d, "active">> \in infected' => d \in swapped
         /\ \A e \in Docs : <<e, "quarantine">> \in infected' <=> <<e, "quarantine">> \in infected
         /\ \A e \in Docs : e # d => (/\ <<e, "active">> \in objects' <=> <<e, "active">> \in objects
                                      /\ <<e, "active">> \in infected' <=> <<e, "active">> \in infected)
<1>1. <<d, "active">> \in Docs \X Prefixes  BY DEF Prefixes
<1>2. objects' = objects \cup {<<d, "active">>}  BY DEF Copy
<1>3. CASE <<d, "quarantine">> \in infected
  <2>1. infected' = infected \cup {<<d, "active">>}  BY <1>3 DEF Copy
  <2>2. d \in swapped  BY <1>3 DEF Clean
  <2> QED  BY <1>1, <1>2, <2>1, <2>2 DEF IInv, TypeOK
<1>4. CASE <<d, "quarantine">> \notin infected
  <2>1. infected' = infected \ {<<d, "active">>}  BY <1>4 DEF Copy
  <2> QED  BY <1>1, <1>2, <2>1 DEF IInv, TypeOK
<1> QED  BY <1>3, <1>4

\* The promotion: the copy is in place when the row says so, and an active
\* document without a copy was confirmed after its window.
LEMMA MarkActiveStep ==
  ASSUME IInv, NEW w \in Workers, MarkActive(w)
  PROVE  IInv'
<1>1. PICK d : d = worker[w].doc  OBVIOUS
<1>2. /\ worker[w].pc = "clean"
      /\ UNCHANGED <<late, tardy, swapped, unhandled, hooks, messages, faults, sweeps>>
  BY DEF MarkActive, At
<1>3. d \in Docs /\ Clean(d)  BY <1>1, <1>2 DEF IInv, TaskInv, Knows
<1>4. CASE Finish(w) /\ UNCHANGED <<row, objects, infected>>
  <2>1. TypeOK'  BY <1>2, <1>4, FinishStep DEF IInv, TypeOK, sweeps, Pcs
  <2> QED  BY <1>2, <1>4, <2>1, FinishStep, QuietTask
<1>5. CASE /\ Unjudged(d) /\ Copy(d)
           /\ row' = [row EXCEPT ![d].status = "active", ![d].key = "active"]
           /\ Goto(w, "unlink")
  <2>1. row \in [Docs -> Row] /\ "active" \in ScanStatus /\ "active" \in Prefixes
    BY DEF IInv, TypeOK, ScanStatus, Prefixes
  <2>2. row' = [row EXCEPT ![d].status = "active", ![d].key = "active"]  BY <1>5
  <2>3. row' \in [Docs -> Row]  BY <1>3, <2>1, <2>2 DEF Row
  <2>4. /\ row'[d].status = "active" /\ row'[d].key = "active"
        /\ \A e \in Docs : e # d => row'[e] = row[e]
    BY <1>3, <2>1, <2>2 DEF Row
  <2>5. Moves  BY <1>3, <1>5, <2>4 DEF Moves, Status, Unjudged, Lifecycle
  <2>6. /\ worker' \in [Workers -> [pc: Pcs, doc: Docs \cup {None}, retries: 0 .. MaxRetries]]
        /\ worker'[w].pc = "unlink" /\ worker'[w].doc = d
        /\ \A v \in Workers : v # w => worker'[v] = worker[v]
    BY <1>1, <1>5, GotoStep DEF Pcs
  <2>7. /\ objects' \subseteq Docs \X Prefixes /\ infected' \subseteq Docs \X Prefixes
        /\ objects \subseteq objects' /\ <<d, "active">> \in objects'
        /\ <<d, "active">> \in infected' => d \in swapped
        /\ \A e \in Docs : Clean(e) => Clean(e)'
    BY <1>2, <1>3, <1>5, CopyFacts DEF Clean
  <2>8. TypeOK'  BY <1>2, <2>3, <2>6, <2>7 DEF IInv, TypeOK, sweeps, Pcs
  <2>9. KeptInv'
    <3> SUFFICES ASSUME NEW e \in Docs PROVE Kept(e)'
      BY DEF KeptInv
    <3>1. Kept(e)  BY DEF IInv, KeptInv
    <3>2. CASE e # d
      <4>1. /\ <<e, "active">> \in objects' <=> <<e, "active">> \in objects
            /\ <<e, "active">> \in infected' <=> <<e, "active">> \in infected
        BY <1>3, <1>5, <3>2 DEF Copy
      <4> QED  BY <1>2, <2>4, <2>7, <3>1, <3>2, <4>1 DEF Kept, Status, sweeps
    <3>3. CASE e = d
      <4>1. purged[d] = 0  BY <1>5, <3>1, <3>3 DEF Kept, Unjudged
      <4> QED  BY <1>2, <2>4, <2>7, <3>3, <4>1 DEF Kept, Status, sweeps
    <3> QED  BY <3>2, <3>3
  <2>10. ChunkKept  BY <1>5, <2>4 DEF Status, ChunkKept, Unjudged
  <2>11. Knows(w)'  BY <1>3, <2>4, <2>6 DEF Knows, Status, Seen
  <2> QED  BY <1>2, <2>5, <2>6, <2>7, <2>8, <2>9, <2>10, <2>11, WriteStep
<1>6. CASE /\ Unjudged(d) /\ <<d, "quarantine">> \notin objects
           /\ SetStatus(d, "active") /\ Finish(w) /\ UNCHANGED <<objects, infected>>
  <2>1. "active" \in ScanStatus /\ <<Status(d), "active">> \in Lifecycle
    BY <1>6 DEF ScanStatus, Lifecycle, Unjudged
  <2>2. /\ row' \in [Docs -> Row] /\ Moves
        /\ row' = [row EXCEPT ![d] = [row[d] EXCEPT !.status = "active"]]
    BY <1>3, <1>6, <2>1, StatusChange DEF IInv, TypeOK
  <2>3. row'[d].status = "active" /\ ChunkKept
    BY <1>3, <1>6, <2>2, OneStatus DEF Unjudged
  <2>4. TypeOK'  BY <1>2, <1>6, <2>2, FinishStep DEF IInv, TypeOK, sweeps, Pcs
  <2>5. KeptInv'
    <3> SUFFICES ASSUME NEW e \in Docs PROVE Kept(e)'
      BY DEF KeptInv
    <3>1. Kept(e)  BY DEF IInv, KeptInv
    <3>2. CASE e # d
      <4>1. row'[e] = row[e]  BY <2>2, <3>2 DEF IInv, TypeOK
      <4> QED  BY <1>2, <1>6, <3>1, <4>1 DEF Kept, Status, sweeps
    <3>3. CASE e = d
      <4>1. d \in tardy /\ purged[d] = 0  BY <1>6, <3>1, <3>3 DEF Kept, Unjudged
      <4> QED  BY <1>2, <1>6, <2>3, <3>1, <3>3, <4>1 DEF Kept, Status, sweeps
    <3> QED  BY <3>2, <3>3
  <2> QED  BY <1>2, <1>6, <2>2, <2>3, <2>4, <2>5, FinishStep, WriteStep DEF Clean
<1> QED  BY <1>1, <1>4, <1>5, <1>6 DEF MarkActive

LEMMA CopyOnlyStep ==
  ASSUME IInv, NEW w \in Workers, CopyOnly(w)
  PROVE  IInv'
<1>1. PICK d : d = worker[w].doc  OBVIOUS
<1>2. /\ worker[w].pc = "clean" /\ Copy(d) /\ Goto(w, "retry")
      /\ UNCHANGED <<row, late, tardy, swapped, unhandled, hooks, messages, faults, sweeps>>
  BY <1>1 DEF CopyOnly, At
<1>3. d \in Docs /\ Clean(d) /\ Status(d) \in Seen  BY <1>1, <1>2 DEF IInv, TaskInv, Knows
<1>4. Moves /\ ChunkKept  BY <1>2, NoRowChange, NoChunkChange DEF IInv, TypeOK
<1>5. /\ worker' \in [Workers -> [pc: Pcs, doc: Docs \cup {None}, retries: 0 .. MaxRetries]]
      /\ worker'[w].pc = "retry" /\ worker'[w].doc = d
      /\ \A v \in Workers : v # w => worker'[v] = worker[v]
  BY <1>1, <1>2, GotoStep DEF Pcs
<1>6. /\ objects' \subseteq Docs \X Prefixes /\ infected' \subseteq Docs \X Prefixes
      /\ objects \subseteq objects'
      /\ <<d, "active">> \in infected' => d \in swapped
      /\ \A e \in Docs : Clean(e) => Clean(e)'
  BY <1>2, <1>3, CopyFacts DEF Clean
<1>7. TypeOK'  BY <1>2, <1>5, <1>6 DEF IInv, TypeOK, sweeps, Pcs
<1>8. KeptInv'
  <2> SUFFICES ASSUME NEW e \in Docs PROVE Kept(e)'
    BY DEF KeptInv
  <2>1. Kept(e)  BY DEF IInv, KeptInv
  <2>2. e # d => (/\ <<e, "active">> \in objects' <=> <<e, "active">> \in objects
                  /\ <<e, "active">> \in infected' <=> <<e, "active">> \in infected)
    BY <1>2, <1>3 DEF Copy
  <2>3. UNCHANGED <<row, tardy, swapped, purged>>  BY <1>2 DEF sweeps
  <2>4. <<e, "active">> \in objects' \cap infected' => e \in swapped
    <3>1. CASE e = d  BY <1>6, <3>1
    <3>2. CASE e # d
      <4>1. <<e, "active">> \in objects \cap infected => e \in swapped  BY <2>1 DEF Kept
      <4> QED  BY <2>2, <3>2, <4>1
    <3> QED  BY <3>1, <3>2
  <2>5. /\ <<e, "quarantine">> \in objects => <<e, "quarantine">> \in objects'
        /\ <<e, "active">> \in objects => <<e, "active">> \in objects'
    BY <1>6
  <2> QED  BY <2>1, <2>3, <2>4, <2>5 DEF Kept, Status
<1>9. Knows(w)'  BY <1>2, <1>3, <1>5 DEF Knows, Status
<1> QED  BY <1>2, <1>4, <1>5, <1>6, <1>7, <1>8, <1>9, WriteStep

\* A judged document is under active/ or has no file to lose.
LEMMA UnlinkStep ==
  ASSUME IInv, NEW w \in Workers, Unlink(w)
  PROVE  IInv'
<1>1. PICK d : d = worker[w].doc  OBVIOUS
<1>2. /\ worker[w].pc = "unlink" /\ Finish(w)
      /\ objects' \in {objects, objects \ {<<d, "quarantine">>}}
      /\ UNCHANGED <<row, infected, late, tardy, swapped, unhandled, hooks, messages, faults, sweeps>>
  BY <1>1 DEF Unlink, At, marks
<1>3. d \in Docs /\ Status(d) # "scanning"  BY <1>1, <1>2 DEF IInv, TaskInv, Knows
<1>4. Moves  BY <1>2, NoRowChange DEF IInv, TypeOK
<1>5. TypeOK'  BY <1>2, FinishStep DEF IInv, TypeOK, sweeps, Pcs
<1>6. KeptInv'
  <2> SUFFICES ASSUME NEW e \in Docs PROVE Kept(e)'
    BY DEF KeptInv
  <2>1. Kept(e)  BY DEF IInv, KeptInv
  <2>2. /\ <<e, "active">> \in objects' <=> <<e, "active">> \in objects
        /\ e # d /\ <<e, "quarantine">> \in objects => <<e, "quarantine">> \in objects'
    BY <1>2
  <2> QED  BY <1>2, <1>3, <2>1, <2>2 DEF Kept, Status, sweeps
<1> QED  BY <1>2, <1>4, <1>5, <1>6, NoChunkChange, FinishStep, WriteStep DEF Clean

----------------------------------------------------------------------------
(* The clean-up of abandoned uploads.                                      *)

LEMMA SnapshotStep ==
  ASSUME IInv, CleanupSnapshot
  PROVE  IInv'
<1>1. /\ cleaner' = [pc |-> "purge", chunk |-> Stale]
      /\ UNCHANGED <<row, objects, infected, late, tardy, swapped, unhandled, alive, tasks, purger, purged>>
  BY DEF CleanupSnapshot, marks
<1>2. \A d \in Stale : d \in Docs /\ d \in late /\ Status(d) = "pending_upload"
  BY DEF Stale, IInv, TypeOK
<1>3. Moves  BY <1>1, NoRowChange DEF IInv, TypeOK
<1>4. TypeOK'  BY <1>1, <1>2 DEF IInv, TypeOK, tasks
<1>5. KeptInv'  BY <1>1, KeptFrame
<1>6. TaskInv'  BY <1>1, <1>3, TaskFrame DEF tasks, Clean
<1>7. ChunkInv'
  <2> SUFFICES ASSUME NEW d \in Stale
               PROVE  d \in late' /\ row'[d].status = "pending_upload"
    BY <1>1 DEF ChunkInv, Status
  <2> QED  BY <1>1, <1>2 DEF Status
<1>8. PurgeInv'
  <2>1. \A p \in Purgers : purger[p].pc # "off" => purger[p].doc \notin Stale
    BY <1>2 DEF IInv, PurgeInv, Gone
  <2> QED  BY <1>1, <2>1 DEF IInv, PurgeInv, Status
<1> QED  BY <1>4, <1>5, <1>6, <1>7, <1>8 DEF IInv

\* A row of the snapshot confirmed since then was confirmed after its window.
LEMMA CleanupPurgeStep ==
  ASSUME IInv, CleanupPurge
  PROVE  IInv'
<1>1. /\ objects' \in {objects, objects \ (cleaner.chunk \X {"quarantine"})}
      /\ cleaner' = [cleaner EXCEPT !.pc = "select"]
      /\ UNCHANGED <<row, infected, late, tardy, swapped, unhandled, alive, tasks, purger, purged>>
  BY DEF CleanupPurge, marks
<1>2. Moves /\ ChunkKept  BY <1>1, NoRowChange, NoChunkChange DEF IInv, TypeOK
<1>3. /\ cleaner' \in [pc: {"off", "purge", "select", "delete"}, chunk: SUBSET Docs]
      /\ cleaner'.chunk = cleaner.chunk
  BY <1>1 DEF IInv, TypeOK
<1>4. objects' \subseteq objects  BY <1>1
<1>5. TypeOK'  BY <1>1, <1>3, <1>4 DEF IInv, TypeOK, tasks
<1>6. KeptInv'
  <2> SUFFICES ASSUME NEW e \in Docs PROVE Kept(e)'
    BY DEF KeptInv
  <2>1. Kept(e)  BY DEF IInv, KeptInv
  <2>2. /\ <<e, "active">> \in objects' <=> <<e, "active">> \in objects
        /\ e \notin cleaner.chunk /\ <<e, "quarantine">> \in objects => <<e, "quarantine">> \in objects'
    BY <1>1
  <2>3. e \in cleaner.chunk /\ Status(e) = "scanning" => e \in tardy  BY DEF IInv, ChunkInv
  <2> QED  BY <1>1, <2>1, <2>2, <2>3 DEF Kept, Status
<1>7. TaskInv'  BY <1>1, <1>2, TaskFrame DEF tasks, Clean
<1>8. ChunkInv'  BY <1>1, <1>2, <1>3, ChunkFrame
<1>9. PurgeInv'  BY <1>1, <1>2, <1>3, PurgeFrame
<1> QED  BY <1>5, <1>6, <1>7, <1>8, <1>9 DEF IInv

LEMMA CleanupSelectStep ==
  ASSUME IInv, CleanupSelect
  PROVE  IInv'
<1>1. UNCHANGED <<row, objects, infected, late, tardy, swapped, unhandled, alive, tasks, purger, purged>>
  BY DEF CleanupSelect, marks
<1>2. /\ cleaner' \in [pc: {"off", "purge", "select", "delete"}, chunk: SUBSET Docs]
      /\ cleaner'.chunk \subseteq cleaner.chunk
  <2> DEFINE found == {d \in cleaner.chunk : Status(d) = "pending_upload"}
  <2>1. found \subseteq cleaner.chunk /\ cleaner.chunk \subseteq Docs  BY DEF IInv, TypeOK
  <2>2. cleaner' = Off \/ cleaner' = [pc |-> "delete", chunk |-> found]  BY DEF CleanupSelect
  <2> HIDE DEF found
  <2> QED  BY <2>1, <2>2 DEF Off
<1>3. Moves /\ ChunkKept  BY <1>1, NoRowChange, NoChunkChange DEF IInv, TypeOK
<1>4. TypeOK'  BY <1>1, <1>2 DEF IInv, TypeOK, tasks
<1>5. KeptInv'  BY <1>1, KeptFrame
<1>6. TaskInv'  BY <1>1, <1>3, TaskFrame DEF tasks, Clean
<1>7. ChunkInv'  BY <1>1, <1>2, <1>3, ChunkFrame
<1>8. PurgeInv'  BY <1>1, <1>2, <1>3, PurgeFrame
<1> QED  BY <1>4, <1>5, <1>6, <1>7, <1>8 DEF IInv

\* The rows selected are pending still, gone, or were confirmed or deleted after
\* their window; none is one a purge has taken.
LEMMA CleanupDeleteStep ==
  ASSUME IInv, CleanupDelete
  PROVE  IInv' /\ Moves
<1>1. /\ row' = row \/ row' = [d \in Docs |-> IF d \in cleaner.chunk THEN Removed ELSE row[d]]
      /\ cleaner' = Off
      /\ UNCHANGED <<objects, infected, late, tardy, swapped, unhandled, alive, tasks, purger, purged>>
  BY DEF CleanupDelete, marks
<1>2. \A d \in cleaner.chunk :
         /\ d \in Docs /\ Status(d) # "purged"
         /\ Status(d) \in {"pending_upload", "removed"} \/ d \in tardy
  BY DEF IInv, TypeOK, ChunkInv
<1>3. Removed \in Row /\ Removed.status = "removed"
  BY DEF Removed, Row, ScanStatus, Prefixes
<1>4. row' \in [Docs -> Row]  BY <1>1, <1>3 DEF IInv, TypeOK
<1>5. \A d \in Docs : row'[d] = row[d] \/ (d \in cleaner.chunk /\ row'[d].status = "removed")
  <2>1. CASE row' = row  BY <2>1
  <2>2. CASE row' = [d \in Docs |-> IF d \in cleaner.chunk THEN Removed ELSE row[d]]
    BY <1>3, <2>2
  <2> QED  BY <1>1, <2>1, <2>2
<1>6. Moves  BY <1>2, <1>5 DEF Moves, Status, Lifecycle
<1>7. cleaner' \in [pc: {"off", "purge", "select", "delete"}, chunk: SUBSET Docs] /\ cleaner'.chunk = {}
  BY <1>1 DEF Off
<1>8. TypeOK'  BY <1>1, <1>4, <1>7 DEF IInv, TypeOK, tasks
<1>9. KeptInv'
  <2> SUFFICES ASSUME NEW e \in Docs PROVE Kept(e)'
    BY DEF KeptInv
  <2>1. Kept(e)  BY DEF IInv, KeptInv
  <2>2. CASE row'[e] = row[e]  BY <1>1, <2>1, <2>2 DEF Kept, Status
  <2>3. CASE e \in cleaner.chunk /\ row'[e].status = "removed"
    <3>1. purged[e] = 0  BY <1>2, <2>1, <2>3 DEF Kept
    <3> QED  BY <1>1, <2>1, <2>3, <3>1 DEF Kept, Status
  <2> QED  BY <1>5, <2>2, <2>3
<1>10. TaskInv'  BY <1>1, <1>6, TaskFrame DEF tasks, Clean
<1>11. ChunkInv'  BY <1>7 DEF ChunkInv
<1>12. PurgeInv'  BY <1>1, <1>6, <1>7, PurgeFrame
<1> QED  BY <1>6, <1>8, <1>9, <1>10, <1>11, <1>12 DEF IInv

----------------------------------------------------------------------------
(* Holds, disposal and purge.                                              *)

\* A hold moves no status.
LEMMA HoldSteps ==
  ASSUME IInv, NEW d \in Docs, ApplyLegalHold(d) \/ ReleaseLegalHold(d)
  PROVE  IInv' /\ Moves
<1>1. PICK h \in BOOLEAN : row' = [row EXCEPT ![d].hold = h]
  BY DEF ApplyLegalHold, ReleaseLegalHold, marks
<1>2. UNCHANGED <<objects, infected, late, tardy, swapped, unhandled, tasks, sweeps>>
  BY DEF ApplyLegalHold, ReleaseLegalHold, marks
<1>3. row \in [Docs -> Row]  BY DEF IInv, TypeOK
<1>4. row' \in [Docs -> Row]  BY <1>1, <1>3 DEF Row
<1>5. \A e \in Docs : row'[e].status = row[e].status /\ row'[e].key = row[e].key
  BY <1>1, <1>3 DEF Row
<1>6. Moves  BY <1>5 DEF Moves, Status
<1>7. TypeOK'  BY <1>2, <1>4 DEF IInv, TypeOK, tasks, sweeps
<1>8. KeptInv'
  <2> SUFFICES ASSUME NEW e \in Docs PROVE Kept(e)'
    BY DEF KeptInv
  <2>1. Kept(e)  BY DEF IInv, KeptInv
  <2> QED  BY <1>2, <1>5, <2>1 DEF Kept, Status, sweeps
<1>9. ChunkKept  BY <1>5 DEF ChunkKept, Status
<1> QED  BY <1>2, <1>6, <1>7, <1>8, <1>9, WriteStep DEF tasks, Clean

LEMMA SoftDeleteStep ==
  ASSUME IInv, NEW d \in Docs, SoftDelete(d)
  PROVE  IInv' /\ Moves
<1>1. /\ SetStatus(d, "deleted") /\ Exists(d) /\ ~SoftDeleted(d)
      /\ tardy' = IF Status(d) = "pending_upload" /\ d \in late THEN tardy \cup {d} ELSE tardy
      /\ UNCHANGED <<objects, infected, late, swapped, unhandled, tasks, sweeps>>
  BY DEF SoftDelete, LeavesPending
<1>2. Status(d) \in {"pending_upload", "scanning", "active", "quarantined"}
  BY <1>1 DEF IInv, TypeOK, Row, ScanStatus, Exists, SoftDeleted, Status
<1>3. "deleted" \in ScanStatus /\ <<Status(d), "deleted">> \in Lifecycle
  BY <1>2 DEF ScanStatus, Lifecycle
<1>4. /\ row' \in [Docs -> Row] /\ Moves
      /\ row' = [row EXCEPT ![d] = [row[d] EXCEPT !.status = "deleted"]]
  BY <1>1, <1>3, StatusChange DEF IInv, TypeOK
<1>5. TypeOK'  BY <1>1, <1>4 DEF IInv, TypeOK, tasks, sweeps
<1>6. Status(d) # "purged" /\ UNCHANGED purged /\ tardy \subseteq tardy'  BY <1>1, <1>2 DEF sweeps
<1>7. KeptInv'  BY <1>1, <1>4, <1>6, KeptStatus
<1>8. ChunkKept  BY <1>1, <1>4, OneStatus
<1> QED  BY <1>1, <1>4, <1>5, <1>6, <1>7, <1>8, WriteStep DEF tasks, Clean

\* Steps of a purge that write no row and erase no object.
LEMMA PurgerStep ==
  ASSUME IInv, NEW p \in Purgers, NEW x \in {"off", "erase", "record"}, NEW d \in Docs \cup {None},
         NEW k \in Prefixes \cup {None},
         purger' = [purger EXCEPT ![p] = [pc |-> x, doc |-> d, key |-> k]],
         x # "off" => d \in Docs /\ Status(d) \in Gone /\ d \notin cleaner.chunk,
         UNCHANGED <<row, cleaner>>
  PROVE  /\ purger' \in [Purgers -> [pc: {"off", "erase", "record"}, doc: Docs \cup {None},
                                     key: Prefixes \cup {None}]]
         /\ PurgeInv'
<1>1. purger' \in [Purgers -> [pc: {"off", "erase", "record"}, doc: Docs \cup {None},
                               key: Prefixes \cup {None}]]
  BY DEF IInv, TypeOK
<1>2. /\ purger'[p].pc = x /\ purger'[p].doc = d
      /\ \A q \in Purgers : q # p => purger'[q] = purger[q]
  BY DEF IInv, TypeOK
<1>3. PurgeInv'
  <2> SUFFICES ASSUME NEW q \in Purgers, purger'[q].pc # "off"
               PROVE  /\ purger'[q].doc \in Docs /\ row'[purger'[q].doc].status \in Gone
                      /\ purger'[q].doc \notin cleaner'.chunk
    BY DEF PurgeInv, Status
  <2>1. CASE q = p  BY <1>2, <2>1 DEF Status
  <2>2. CASE q # p
    <3>1. purger'[q] = purger[q] /\ purger[q].pc # "off"  BY <1>2, <2>2
    <3>2. /\ purger[q].doc \in Docs /\ row[purger[q].doc].status \in Gone
          /\ purger[q].doc \notin cleaner.chunk
      BY <3>1 DEF IInv, PurgeInv, Status
    <3> QED  BY <3>1, <3>2
  <2> QED  BY <2>1, <2>2
<1> QED  BY <1>1, <1>3

\* What is left to show of a step of a purge that writes no row.
LEMMA PurgeQuiet ==
  ASSUME IInv, UNCHANGED <<row, infected, late, tardy, swapped, unhandled, alive, tasks, cleaner, purged>>,
         purger' \in [Purgers -> [pc: {"off", "erase", "record"}, doc: Docs \cup {None},
                                  key: Prefixes \cup {None}]],
         objects' \subseteq objects, PurgeInv',
         \A e \in Docs : Status(e) \in Gone \/ \A k \in Prefixes : <<e, k>> \in objects => <<e, k>> \in objects'
  PROVE  IInv'
<1>1. Moves  BY NoRowChange DEF IInv, TypeOK
<1>2. TypeOK'  BY DEF IInv, TypeOK, tasks
<1>3. KeptInv'
  <2> SUFFICES ASSUME NEW e \in Docs PROVE Kept(e)'
    BY DEF KeptInv
  <2>1. Kept(e)  BY DEF IInv, KeptInv
  <2>2. <<e, "active">> \in objects' => <<e, "active">> \in objects  OBVIOUS
  <2>3. CASE Status(e) \in Gone  BY <2>1, <2>2, <2>3 DEF Kept, Status, Gone
  <2>4. CASE \A k \in Prefixes : <<e, k>> \in objects => <<e, k>> \in objects'
    BY <2>1, <2>2, <2>4 DEF Kept, Status, Prefixes
  <2> QED  BY <2>3, <2>4
<1>4. TaskInv'  BY <1>1, TaskFrame DEF tasks, Clean
<1>5. ChunkInv'  BY <1>1, NoChunkChange, ChunkFrame
<1> QED  BY <1>2, <1>3, <1>4, <1>5 DEF IInv

LEMMA HardDeleteStep ==
  ASSUME IInv, NEW p \in Purgers, NEW d \in Docs, HardDelete(p, d)
  PROVE  IInv'
<1>1. /\ Status(d) = "deleted" /\ d \notin cleaner.chunk
      /\ purger' = [purger EXCEPT ![p] = [pc |-> "erase", doc |-> d, key |-> row[d].key]]
      /\ UNCHANGED <<row, objects, infected, late, tardy, swapped, unhandled, alive, tasks, cleaner, purged>>
  BY DEF HardDelete, marks
<1>2. row[d].key \in Prefixes \cup {None} /\ Status(d) \in Gone
  BY <1>1 DEF IInv, TypeOK, Row, Gone
<1> QED  BY <1>1, <1>2, PurgerStep, PurgeQuiet

LEMMA FreeStep ==
  ASSUME IInv, NEW p \in Purgers, PFree(p), UNCHANGED <<row, cleaner>>
  PROVE  /\ purger' \in [Purgers -> [pc: {"off", "erase", "record"}, doc: Docs \cup {None},
                                     key: Prefixes \cup {None}]]
         /\ PurgeInv'
<1>1. purger' = [purger EXCEPT ![p] = [pc |-> "off", doc |-> None, key |-> None]]
  BY DEF PFree, Free
<1> QED  BY <1>1, PurgerStep

\* Only a deleted document loses its object to a purge.
LEMMA EraseStep ==
  ASSUME IInv, NEW p \in Purgers, EraseObject(p) \/ PurgerLost(p)
  PROVE  IInv'
<1>1. CASE PFree(p) /\ UNCHANGED <<objects, row, infected, late, tardy, swapped, unhandled, alive, tasks, cleaner, purged>>
  BY <1>1, FreeStep, PurgeQuiet
<1>2. CASE /\ purger[p].pc = "erase" /\ PGoto(p, "record")
           /\ objects' = objects \ {<<purger[p].doc, purger[p].key>>}
           /\ UNCHANGED <<row, infected, late, tardy, swapped, unhandled, alive, tasks, cleaner, purged>>
  <2>1. PICK d, k : d = purger[p].doc /\ k = purger[p].key  OBVIOUS
  <2>2. d \in Docs /\ Status(d) \in Gone /\ d \notin cleaner.chunk /\ k \in Prefixes \cup {None}
    BY <1>2, <2>1 DEF IInv, TypeOK, PurgeInv
  <2>3. purger' = [purger EXCEPT ![p] = [pc |-> "record", doc |-> d, key |-> k]]
    <3>1. purger' = [purger EXCEPT ![p].pc = "record"]  BY <1>2 DEF PGoto
    <3>2. [purger[p] EXCEPT !.pc = "record"] = [pc |-> "record", doc |-> d, key |-> k]
      BY <2>1 DEF IInv, TypeOK
    <3> QED  BY <3>1, <3>2
  <2>4. objects' = objects \ {<<d, k>>}  BY <1>2, <2>1
  <2>5. \A e \in Docs : Status(e) \in Gone \/ \A x \in Prefixes : <<e, x>> \in objects => <<e, x>> \in objects'
    BY <2>2, <2>4
  <2> QED  BY <1>2, <2>2, <2>3, <2>4, <2>5, PurgerStep, PurgeQuiet
<1> QED  BY <1>1, <1>2 DEF EraseObject, PurgerLost, marks

LEMMA RecordPurgeStep ==
  ASSUME IInv, NEW p \in Purgers, RecordPurge(p)
  PROVE  IInv' /\ Moves
<1>1. PICK d : d = purger[p].doc  OBVIOUS
<1>2. /\ purger[p].pc = "record" /\ PFree(p)
      /\ UNCHANGED <<objects, infected, late, tardy, swapped, unhandled, alive, tasks, cleaner>>
  BY DEF RecordPurge, marks
<1>3. d \in Docs /\ d \notin cleaner.chunk  BY <1>1, <1>2 DEF IInv, PurgeInv
<1>4. CASE UNCHANGED <<row, purged>>
  <2>1. IInv'  BY <1>2, <1>4, FreeStep, PurgeQuiet
  <2> QED  BY <1>4, <2>1, NoRowChange DEF IInv, TypeOK
<1>5. CASE /\ Status(d) = "deleted"
           /\ row' = [row EXCEPT ![d].status = "purged", ![d].key = None]
           /\ purged' = [purged EXCEPT ![d] = @ + 1]
  <2>1. row \in [Docs -> Row] /\ "purged" \in ScanStatus /\ purged \in [Docs -> Nat]
    BY DEF IInv, TypeOK, ScanStatus
  <2>2. row' = [row EXCEPT ![d].status = "purged", ![d].key = None]  BY <1>5
  <2>3. row' \in [Docs -> Row]  BY <1>3, <2>1, <2>2 DEF Row
  <2>4. row'[d].status = "purged" /\ \A e \in Docs : e # d => row'[e] = row[e]
    BY <1>3, <2>1, <2>2 DEF Row
  <2>5. /\ purged' \in [Docs -> Nat] /\ purged'[d] = purged[d] + 1
        /\ \A e \in Docs : e # d => purged'[e] = purged[e]
    BY <1>3, <1>5, <2>1
  <2>6. Moves  BY <1>5, <2>4 DEF Moves, Status, Lifecycle
  <2>7. /\ purger' \in [Purgers -> [pc: {"off", "erase", "record"}, doc: Docs \cup {None},
                                    key: Prefixes \cup {None}]]
        /\ \A q \in Purgers : purger'[q].pc = "off" \/ purger'[q] = purger[q]
    BY <1>2 DEF PFree, Free, IInv, TypeOK
  <2>8. TypeOK'  BY <1>2, <2>3, <2>5, <2>7 DEF IInv, TypeOK, tasks
  <2>9. KeptInv'
    <3> SUFFICES ASSUME NEW e \in Docs PROVE Kept(e)'
      BY DEF KeptInv
    <3>1. Kept(e)  BY DEF IInv, KeptInv
    <3>2. CASE e # d  BY <1>2, <2>4, <2>5, <3>1, <3>2 DEF Kept, Status
    <3>3. CASE e = d
      <4>1. purged[d] = 0  BY <1>5, <3>1, <3>3 DEF Kept
      <4> QED  BY <1>2, <2>4, <2>5, <3>1, <3>3, <4>1 DEF Kept, Status
    <3> QED  BY <3>2, <3>3
  <2>10. TaskInv'  BY <1>2, <2>6, TaskFrame DEF tasks, Clean
  <2>11. ChunkKept  BY <1>3, <1>5, <2>4 DEF ChunkKept, Status
  <2>12. ChunkInv'  BY <1>2, <2>6, <2>11, ChunkFrame
  <2>13. PurgeInv'
    <3>1. cleaner'.chunk \subseteq cleaner.chunk  BY <1>2
    <3> QED  BY <2>6, <2>7, <3>1, PurgeFrame
  <2> QED  BY <2>6, <2>8, <2>9, <2>10, <2>12, <2>13 DEF IInv
<1> QED  BY <1>1, <1>4, <1>5 DEF RecordPurge, marks

----------------------------------------------------------------------------
LEMMA StutterStep ==
  ASSUME IInv, UNCHANGED vars
  PROVE  IInv' /\ Moves
<1>1. /\ UNCHANGED <<row, objects, infected, late, tardy, swapped, unhandled, hooks, messages, worker, sweeps>>
      /\ UNCHANGED faults
  BY DEF vars, sweeps
<1>2. TypeOK'  BY <1>1 DEF IInv, TypeOK, sweeps
<1>3. IInv'  BY <1>1, <1>2, QuietTask
<1> QED  BY <1>1, <1>3, NoRowChange DEF IInv, TypeOK

LEMMA InvStep == IInv /\ [Next]_vars => IInv'
<1> SUFFICES ASSUME IInv, [Next]_vars PROVE IInv'
  OBVIOUS
<1>1. CASE UNCHANGED vars  BY <1>1, StutterStep
<1>2. ASSUME NEW d \in Docs,
             \/ ValidateUpload(d) \/ CreateNewVersion(d) \/ PresignFails(d) \/ BrowserPost(d)
             \/ WindowCloses(d) \/ ConfirmUpload(d) \/ DispatchScan(d) \/ HookLost(d)
             \/ ApplyLegalHold(d) \/ ReleaseLegalHold(d) \/ SoftDelete(d)
      PROVE  IInv'
  BY <1>2, UploadSteps, BrowserPostStep, WindowClosesStep, ConfirmStep, DispatchStep, HoldSteps,
     SoftDeleteStep
<1>3. ASSUME NEW w \in Workers, NEW m \in messages, ReceiveScan(w, m) \/ ReceiveCopy(w, m)
      PROVE  IInv'
  BY <1>3, ReceiveSteps
<1>4. ASSUME NEW w \in Workers,
             \/ Scan(w) \/ Retry(w) \/ OnFailure(w) \/ MarkActive(w) \/ CopyOnly(w)
             \/ MarkQuarantined(w) \/ Unlink(w) \/ WorkerLost(w)
      PROVE  IInv'
  BY <1>4, ScanStep, RetryStep, OnFailureStep, MarkActiveStep, CopyOnlyStep, MarkQuarantinedStep,
     UnlinkStep, WorkerLostStep
<1>5. CASE CleanupSnapshot \/ CleanupPurge \/ CleanupSelect \/ CleanupDelete
  BY <1>5, SnapshotStep, CleanupPurgeStep, CleanupSelectStep, CleanupDeleteStep
<1>6. ASSUME NEW p \in Purgers, NEW d \in Docs, HardDelete(p, d)
      PROVE  IInv'
  BY <1>6, HardDeleteStep
<1>7. ASSUME NEW p \in Purgers, EraseObject(p) \/ RecordPurge(p) \/ PurgerLost(p)
      PROVE  IInv'
  BY <1>7, EraseStep, RecordPurgeStep
<1> QED  BY <1>1, <1>2, <1>3, <1>4, <1>5, <1>6, <1>7 DEF Next, WorkerStep

\* A scan writes only the row its worker judged, and only while it is scanning.
LEMMA VerdictMoves ==
  ASSUME IInv, NEW w \in Workers, OnFailure(w) \/ MarkActive(w) \/ MarkQuarantined(w)
  PROVE  Moves
<1>1. PICK d : d = worker[w].doc  OBVIOUS
<1>2. d \in Docs
  BY <1>1 DEF IInv, TaskInv, Knows, OnFailure, MarkActive, MarkQuarantined, At
<1>3. row \in [Docs -> Row]  BY DEF IInv, TypeOK
<1>4. CASE UNCHANGED row  BY <1>3, <1>4, NoRowChange
<1>5. ASSUME Status(d) = "scanning", NEW s \in {"active", "quarantined"}, SetStatus(d, s)
      PROVE  Moves
  BY <1>2, <1>3, <1>5, StatusChange DEF ScanStatus, Lifecycle
<1>6. CASE Unjudged(d) /\ row' = [row EXCEPT ![d].status = "active", ![d].key = "active"]
  <2>1. row'[d].status = "active" /\ \A e \in Docs : e # d => row'[e] = row[e]
    BY <1>2, <1>3, <1>6 DEF Row
  <2> QED  BY <1>6, <2>1 DEF Moves, Status, Unjudged, Lifecycle
<1> QED  BY <1>1, <1>4, <1>5, <1>6 DEF OnFailure, MarkActive, MarkQuarantined, Unjudged

LEMMA StepMoves == IInv /\ [Next]_vars => Moves
<1> SUFFICES ASSUME IInv, [Next]_vars PROVE Moves
  OBVIOUS
<1>0. row \in [Docs -> Row]  BY DEF IInv, TypeOK
<1>1. CASE UNCHANGED row  BY <1>0, <1>1, NoRowChange
<1>2. ASSUME NEW d \in Docs, ValidateUpload(d) \/ CreateNewVersion(d) \/ PresignFails(d)
      PROVE  Moves
  <2>1. /\ \A e \in Docs : e # d => row'[e] = row[e]
        /\ \/ Status(d) = "absent" /\ row'[d].status = "pending_upload"
           \/ Status(d) = "pending_upload" /\ row'[d].status = "removed"
    BY <1>0, <1>2 DEF ValidateUpload, CreateNewVersion, PresignFails, Uploaded, Removed
  <2> QED  BY <2>1 DEF Moves, Status, Lifecycle
<1>3. ASSUME NEW d \in Docs, ConfirmUpload(d)
      PROVE  Moves
  BY <1>0, <1>3, StatusChange DEF ConfirmUpload, ScanStatus, Lifecycle
<1>4. ASSUME NEW d \in Docs, ApplyLegalHold(d) \/ ReleaseLegalHold(d) \/ SoftDelete(d)
      PROVE  Moves
  BY <1>4, HoldSteps, SoftDeleteStep
<1>5. ASSUME NEW w \in Workers, OnFailure(w) \/ MarkActive(w) \/ MarkQuarantined(w)
      PROVE  Moves
  BY <1>5, VerdictMoves
<1>6. ASSUME NEW p \in Purgers, RecordPurge(p)
      PROVE  Moves
  BY <1>6, RecordPurgeStep
<1>7. CASE CleanupDelete  BY <1>7, CleanupDeleteStep
<1>8. ASSUME NEW d \in Docs, BrowserPost(d) \/ WindowCloses(d) \/ DispatchScan(d) \/ HookLost(d)
      PROVE  UNCHANGED row
  BY <1>8 DEF BrowserPost, WindowCloses, DispatchScan, HookLost
<1>9. ASSUME NEW w \in Workers, NEW m \in messages, ReceiveScan(w, m) \/ ReceiveCopy(w, m)
      PROVE  UNCHANGED row
  BY <1>9 DEF ReceiveScan, ReceiveCopy
<1>10. ASSUME NEW w \in Workers, Scan(w) \/ Retry(w) \/ CopyOnly(w) \/ Unlink(w) \/ WorkerLost(w)
       PROVE  UNCHANGED row
  BY <1>10 DEF Scan, Retry, CopyOnly, Unlink, WorkerLost
<1>11. ASSUME NEW p \in Purgers, \/ EraseObject(p) \/ PurgerLost(p)
                                 \/ \E d \in Docs : HardDelete(p, d)
       PROVE  UNCHANGED row
  BY <1>11 DEF EraseObject, PurgerLost, HardDelete
<1>12. CASE CleanupSnapshot \/ CleanupPurge \/ CleanupSelect \/ UNCHANGED vars
  BY <1>1, <1>12 DEF CleanupSnapshot, CleanupPurge, CleanupSelect, vars
<1> QED
  BY <1>1, <1>2, <1>3, <1>4, <1>5, <1>6, <1>7, <1>8, <1>9, <1>10, <1>11, <1>12 DEF Next, WorkerStep

----------------------------------------------------------------------------
(* Theorems.                                                               *)

\* The jobs that erase files without the row's lock (the worker after its
\* commit, the clean-up, hard_delete) keep the knowledge they took under it: what
\* the clean-up selected and deletes by id was pending, or left pending_upload
\* only after its window, and a worker that found an object clean copies that
\* content, or one posted since, which the history marks.
THEOREM Invariance == Spec => []IInv
  BY InitInv, InvStep, PTL DEF Spec

\* Rows, objects, messages and the states of the jobs of apps/documents keep
\* their types.
THEOREM TypeCorrect == Spec => []TypeOK
<1>1. IInv => TypeOK  BY DEF IInv
<1> QED  BY <1>1, Invariance, PTL

\* The file of an active document is where its row says, however copies of
\* scan_document, lost workers, cleanup_stale_pending_uploads and hard_delete
\* interleave, unless it was confirmed after its upload window; what is infected
\* under active/ was posted again between a clean scan and its copy, and in no
\* other way; a purge is recorded once.
THEOREM FilesKept == Spec => []FilesAreKept
<1>1. IInv => FilesAreKept
  <2> SUFFICES ASSUME IInv, NEW d \in Docs
               PROVE  /\ Status(d) = "active" => <<d, row[d].key>> \in objects \/ d \in tardy
                      /\ <<d, "active">> \in objects \cap infected => d \in swapped
                      /\ purged[d] = IF Status(d) = "purged" THEN 1 ELSE 0
    BY DEF FilesAreKept
  <2>1. Kept(d)  BY DEF IInv, KeptInv
  <2> QED  BY <2>1 DEF Kept
<1> QED  BY <1>1, Invariance, PTL

\* No late verdict, failure, purge or copy of a task moves a document backwards
\* or out of a final status, and the clean-up, which deletes by id what it selected
\* before, removes no row but a pending one or one that left pending_upload after
\* its window, never a purged one (_mark_document_active_clamav,
\* _quarantine_on_scan_failure, cleanup_stale_pending_uploads, hard_delete): the
\* safety half of JudgedOnce.
THEOREM MovesInLifecycle == Spec => StatusMoves
<1>1. IInv /\ [Next]_vars =>
        [\A d \in Docs :
            \/ row'[d].status = Status(d)
            \/ <<Status(d), row'[d].status>> \in Lifecycle
            \/ row'[d].status = "removed" /\ Status(d) # "purged" /\ d \in tardy]_vars
  BY StepMoves DEF Moves
<1> QED  BY <1>1, Invariance, PTL DEF Spec, StatusMoves

=============================================================================
