------------------------------- MODULE Consent -------------------------------
(***************************************************************************)
(* The consent records of one citizen and one data agreement: grants,      *)
(* withdrawals and the right to be forgotten, each a transaction of        *)
(* several statements.                                                     *)
(*                                                                         *)
(* Source: apps/consent/{services,models,views,govstack_views}.py.         *)
(*                                                                         *)
(* Pairs of citizen and agreement share no rows; an erasure treats each    *)
(* forgettable one alike.  A statement reads what is committed when it     *)
(* starts and, if the row it wants is locked, waits and checks that row    *)
(* again (READ COMMITTED); hence two actions for a statement that locks.   *)
(* What a transaction has written is its `held' rows and the row it `made',*)
(* and takes effect when it commits.  The agreement is active, optional    *)
(* and forgettable; its other kinds refuse before anything is locked.      *)
(* Every record comes from grant, which signs it at once; the revision of  *)
(* one that is no longer current is read by nobody and dropped.            *)
(***************************************************************************)
EXTENDS Naturals, FiniteSets

CONSTANTS
  Requests,    \* web requests, one transaction each (ATOMIC_REQUESTS)
  Revisions,   \* revisions of the data agreement
  MaxRec       \* bound on the records ever made

ASSUME ConsentAssumption == MaxRec \in Nat

VARIABLES
  record,    \* ConsentRecord rows, as committed
  request    \* requests: their transaction, and what they will have answered

vars == <<record, request>>

Rec == 1 .. MaxRec
NoRec == 0

Row == [status: {"absent", "granted", "withdrawn", "erased"}, current: BOOLEAN,
        rev: Revisions \cup {NoRec}]
NoRow == [status |-> "absent", current |-> FALSE, rev |-> NoRec]

Absent == {i \in Rec : record[i].status = "absent"}
Live == {i \in Rec : record[i].status \in {"granted", "withdrawn"}}
Current == {i \in Live : record[i].current}

\* What a reader of the committed rows is told of the consent.
Consents == IF Current = {} THEN {"none"} ELSE {record[i].status : i \in Current}

\* held: rows written and locked; made: the row inserted; target: rows a statement
\* waits for; saw, known: what was committed during the request, and when it began
\* (history).
Idle == [op |-> "none", pc |-> "idle", rev |-> NoRec, held |-> {}, made |-> NoRec,
         target |-> {}, saw |-> {}, known |-> {}, answer |-> "none"]

Init ==
  /\ record = [i \in Rec |-> NoRow]
  /\ request = [r \in Requests |-> Idle]

Busy(r) == request[r].pc # "idle"
LockedByOther(r, i) == \E q \in Requests \ {r} : i \in request[q].held

\* Rows a transaction reads as current: its own archiving hides a row from it.
CurrentTo(r) == Current \ request[r].held

Goto(r, pc, target) ==
  /\ request' = [request EXCEPT ![r].pc = pc, ![r].target = target]
  /\ UNCHANGED record

\* The transaction ends and changes nothing.
RollBack(r, answer) ==
  /\ request' = [request EXCEPT ![r] = [Idle EXCEPT !.answer = answer]]
  /\ UNCHANGED record

\* The transaction takes effect: every request at work may see it.
Commit(r, written, answer) ==
  /\ record' = written
  /\ request' = [q \in Requests |->
       IF q = r THEN [Idle EXCEPT !.answer = answer]
       ELSE IF request[q].op \in {"grant", "withdraw"}
       THEN [request[q] EXCEPT !.saw = @ \cup Consents']
       ELSE request[q]]

----------------------------------------------------------------------------
(* grant.                                                                  *)

\* Room for a record of every grant at work.
RoomLeft == Cardinality({r \in Requests : request[r].op = "grant"}) < Cardinality(Absent)

\* The revision is the agreement's latest or the one the caller names.
BeginGrant(r, rev) ==
  /\ ~Busy(r) /\ RoomLeft
  /\ request' = [request EXCEPT ![r] = [Idle EXCEPT !.op = "grant", !.pc = "look", !.rev = rev,
                                                    !.saw = Consents]]
  /\ UNCHANGED record

Granted(r) == {i \in Current : record[i].status = "granted" /\ record[i].rev = request[r].rev}

\* existing_qs: SELECT ... FOR UPDATE.
LookForGrant(r) ==
  /\ request[r].pc = "look"
  /\ IF Granted(r) = {} THEN Goto(r, "archive", {}) ELSE Goto(r, "relook", Granted(r))

RelookForGrant(r) ==
  /\ request[r].pc = "relook"
  /\ \A i \in request[r].target : ~LockedByOther(r, i)
  /\ IF request[r].target \cap Granted(r) # {} THEN RollBack(r, "granted")
     ELSE Goto(r, "archive", {})

\* UPDATE ... SET is_current = FALSE.
LookForCurrent(r) ==
  /\ request[r].pc = "archive"
  /\ Goto(r, IF Current = {} THEN "insert" ELSE "rearchive", Current)

Archive(r) ==
  /\ request[r].pc = "rearchive"
  /\ \A i \in request[r].target : ~LockedByOther(r, i)
  /\ request' = [request EXCEPT ![r].pc = "insert", ![r].target = {},
                                ![r].held = request[r].target \cap Current]
  /\ UNCHANGED record

\* The unique index has to know whether a transaction at work will keep its row.
IndexIsBusy(r) ==
  \/ \E q \in Requests \ {r} : request[q].made # NoRec
  \/ \E i \in Current : LockedByOther(r, i)

Fresh == CHOOSE i \in Absent : TRUE

\* INSERT, in a savepoint: unique_current_consent_record_per_citizen_category.
Insert(r) ==
  /\ request[r].pc = "insert" /\ ~IndexIsBusy(r)
  /\ IF CurrentTo(r) = {}
     THEN Absent # {} /\ request' = [request EXCEPT ![r].pc = "commit", ![r].made = Fresh]
     ELSE request' = [request EXCEPT ![r].pc = "winner"]
  /\ UNCHANGED record

\* The record is signed in the same transaction, with its revisions and signature.
NewRow(r) == [status |-> "granted", current |-> TRUE, rev |-> request[r].rev]

\* (Mutant.)  The former record stays current.
KeepFormer(r) == [i \in Rec |-> IF i = request[r].made THEN NewRow(r) ELSE record[i]]

AfterGrant(r) ==
  [i \in Rec |-> IF i = request[r].made THEN NewRow(r)
                 ELSE IF i \in request[r].held
                 THEN [record[i] EXCEPT !.current = FALSE, !.rev = NoRec]
                 ELSE record[i]]

CommitGrant(r) ==
  /\ request[r].op = "grant" /\ request[r].pc = "commit"
  /\ Commit(r, AfterGrant(r), "granted")

\* The concurrent grant's row: SELECT ... FOR UPDATE; with none, the error goes up.
LookForWinner(r) ==
  /\ request[r].pc = "winner"
  /\ IF CurrentTo(r) = {} THEN RollBack(r, "error") ELSE Goto(r, "rewinner", CurrentTo(r))

TakeWinner(r) ==
  /\ request[r].pc = "rewinner"
  /\ \A i \in request[r].target : ~LockedByOther(r, i)
  /\ IF request[r].target \cap Current # {} THEN Commit(r, AfterGrant(r), "granted")
     ELSE RollBack(r, "error")

----------------------------------------------------------------------------
(* withdraw.                                                               *)

BeginWithdraw(r) ==
  /\ ~Busy(r)
  /\ request' = [request EXCEPT ![r] = [Idle EXCEPT !.op = "withdraw", !.pc = "find",
                                                       !.saw = Consents]]
  /\ UNCHANGED record

\* SELECT ... FOR UPDATE of the current record.
Find(r) ==
  /\ request[r].pc = "find"
  /\ IF Current = {} THEN RollBack(r, "refused") ELSE Goto(r, "refind", Current)

\* (Mutant.)  The row is taken as it was read.
FoundUnchecked(r) == request[r].target

Found(r) == request[r].target \cap Current

Withdraw(r) ==
  /\ request[r].pc = "refind"
  /\ \A i \in request[r].target : ~LockedByOther(r, i)
  /\ IF Found(r) = {} THEN RollBack(r, "refused")
     ELSE IF \E i \in Found(r) : record[i].status # "granted" THEN RollBack(r, "withdrawn")
     ELSE /\ request' = [request EXCEPT ![r].pc = "commit", ![r].target = {},
                                        ![r].held = Found(r)]
          /\ UNCHANGED record

CommitWithdraw(r) ==
  /\ request[r].op = "withdraw" /\ request[r].pc = "commit"
  /\ Commit(r, [i \in Rec |-> IF i \in request[r].held
                              THEN [record[i] EXCEPT !.status = "withdrawn"] ELSE record[i]],
            "withdrawn")

----------------------------------------------------------------------------
(* right_to_be_forgotten.                                                  *)

BeginErase(r) ==
  /\ ~Busy(r)
  /\ request' = [request EXCEPT ![r] = [Idle EXCEPT !.op = "erase", !.pc = "collect",
                                                    !.known = Live]]
  /\ UNCHANGED record

\* QuerySet.delete() reads the rows, once more after the list whose revisions will
\* be redacted, for their signatures.
Collect(r) ==
  /\ request[r].pc = "collect"
  /\ Goto(r, "delete", Live)

\* DELETE ... WHERE id IN: waits for each row.  The rows it has meanwhile are
\* wanted by nobody but another erasure.
Delete(r) ==
  /\ request[r].pc = "delete"
  /\ \A i \in request[r].target : ~LockedByOther(r, i)
  /\ request' = [request EXCEPT ![r].pc = "commit", ![r].target = {},
                                ![r].held = request[r].target \cap Live]
  /\ UNCHANGED record

Erased(r, i) ==
  IF i \in request[r].held
  THEN [record[i] EXCEPT !.status = "erased", !.current = FALSE, !.rev = NoRec]
  ELSE record[i]

CommitErase(r) ==
  /\ request[r].op = "erase" /\ request[r].pc = "commit"
  /\ Commit(r, [i \in Rec |-> Erased(r, i)], "erased")

----------------------------------------------------------------------------
\* A lost connection, a timeout or a deadlock the database resolves.
Abort(r) ==
  /\ Busy(r)
  /\ RollBack(r, "error")

Step(r) ==
  \/ LookForGrant(r) \/ RelookForGrant(r) \/ LookForCurrent(r) \/ Archive(r) \/ Insert(r)
  \/ CommitGrant(r) \/ LookForWinner(r) \/ TakeWinner(r)
  \/ Find(r) \/ Withdraw(r) \/ CommitWithdraw(r)
  \/ Collect(r) \/ Delete(r) \/ CommitErase(r)

Next ==
  \E r \in Requests :
    \/ \E rev \in Revisions : BeginGrant(r, rev)
    \/ BeginWithdraw(r) \/ BeginErase(r)
    \/ Step(r) \/ Abort(r)

Spec == Init /\ [][Next]_vars

----------------------------------------------------------------------------
(* Properties.                                                             *)

TypeOK ==
  /\ record \in [Rec -> Row]
  /\ request \in [Requests ->
       [op: {"none", "grant", "withdraw", "erase"},
        pc: {"idle", "look", "relook", "archive", "rearchive", "insert", "winner", "rewinner",
             "find", "refind", "collect", "delete", "commit"},
        rev: Revisions \cup {NoRec}, held: SUBSET Rec, made: Rec \cup {NoRec},
        target: SUBSET Rec,
        saw: SUBSET {"none", "granted", "withdrawn"}, known: SUBSET Rec,
        answer: {"none", "granted", "withdrawn", "erased", "refused", "error"}]]

\* A citizen with a consent history has exactly one current record, although a grant
\* archives the former one before it inserts its own, may lose the insertion to
\* another, and may be rolled back (grant; is_current in models.py).
OneCurrent == Live # {} => Cardinality(Current) = 1

Answers(r) == Busy(r) /\ ~Busy(r)'
Saw(r) == request[r].saw \cup Consents'

\* Who is told that consent is granted or withdrawn is told what was the case at some
\* moment of the request, an answer out of another's row included; who is told that
\* everything was forgotten has no record left of those there were (grant, withdraw,
\* right_to_be_forgotten).
AnswersAreTrue ==
  [][\A r \in Requests : Answers(r) =>
       /\ request'[r].answer \in {"granted", "withdrawn"} => request'[r].answer \in Saw(r)
       /\ request'[r].answer = "erased" =>
            \A i \in request[r].known : record'[i].status = "erased"]_vars
=============================================================================
