---------------------------- MODULE VolunteerHours ----------------------------
(***************************************************************************)
(* The hours of one volunteer: logs that coordinators approve or reject,   *)
(* the stored total of the approved ones, and the milestones it crosses.   *)
(*                                                                         *)
(* Source: apps/volunteers/services/{hours,scheduling}.py, admin.py.       *)
(*                                                                         *)
(* An approval reads the total and commits; its hook then recomputes the   *)
(* total under the lock of the profile, and records the milestones between *)
(* the total it read first and the one it wrote.  Nothing repeats a hook   *)
(* whose worker is lost.  The forms of the back office read a log, or the  *)
(* profile, without a lock and save the whole row: the status of the log,  *)
(* the total of the profile.                                               *)
(***************************************************************************)
EXTENDS Naturals, FiniteSets

CONSTANTS
  Logs,         \* shifts or days that the volunteer may log
  HoursIn,      \* the hours that a set of logs adds up to
  Approvers,    \* requests that approve, one transaction and one hook each
  Thresholds,   \* MILESTONE_THRESHOLDS
  MaxEdited     \* bound on the forms open at once

ASSUME HoursAssumption ==
  /\ HoursIn \in [SUBSET Logs -> Nat]
  /\ Thresholds \subseteq Nat \ {0} /\ MaxEdited \in Nat
  /\ HoursIn[{}] = 0

VARIABLES
  log,         \* status of each HoursLog
  total,       \* VolunteerProfile.total_hours_approved
  milestones,  \* thresholds of the RecognitionMilestone rows
  approval,    \* the approving requests
  edited,      \* logs whose form has been read and not saved
  profileForm, \* the total that a form of the profile has read and not saved
  unsummed,    \* history: approved logs have changed and nobody is to recompute the total
  lost         \* history: thresholds that a lost worker was to record

hoursVars == <<log, total, milestones, approval, edited, profileForm, unsummed, lost>>

LogStatuses == {"none", "pending", "approved", "rejected"}

\* of: the log whose row the transaction holds; old, new: the total before and after;
\* due: thresholds crossed and still to record
Approvals == [pc: {"idle", "commit", "hook", "update", "record"}, of: SUBSET Logs,
              old: Nat, new: Nat, due: SUBSET Thresholds]
NoApproval == [pc |-> "idle", of |-> {}, old |-> 0, new |-> 0, due |-> {}]

Approved == {l \in Logs : log[l] = "approved"}
RowLocked(l) == \E a \in Approvers : l \in approval[a].of

\* (Mutant.)  The total is recomputed without the lock of the profile.
ProfileUnlocked == FALSE

ProfileLocked == \E a \in Approvers : approval[a].pc = "update"

HoursInit ==
  /\ log = [l \in Logs |-> "none"]
  /\ total = 0 /\ milestones = {}
  /\ approval = [a \in Approvers |-> NoApproval]
  /\ edited = {} /\ profileForm = {} /\ unsummed = FALSE /\ lost = {}

----------------------------------------------------------------------------
(* log_hours, or complete_booking's get_or_create: one log of each shift.  *)

LogHours(l) ==
  /\ log[l] = "none"
  /\ log' = [log EXCEPT ![l] = "pending"]
  /\ UNCHANGED <<total, milestones, approval, edited, profileForm, unsummed, lost>>

RejectHours(l) ==
  /\ log[l] = "pending" /\ ~RowLocked(l)
  /\ log' = [log EXCEPT ![l] = "rejected"]
  /\ UNCHANGED <<total, milestones, approval, edited, profileForm, unsummed, lost>>

----------------------------------------------------------------------------
(* approve_hours: the transaction, then its hook.                          *)

\* Under the lock of the log, the total is read without one.
ApproveHours(a, l) ==
  /\ approval[a].pc = "idle"
  /\ log[l] = "pending" /\ ~RowLocked(l)
  /\ approval' = [approval EXCEPT ![a] =
       [NoApproval EXCEPT !.pc = "commit", !.of = {l}, !.old = total]]
  /\ UNCHANGED <<log, total, milestones, edited, profileForm, unsummed, lost>>

ApprovalCommits(a) ==
  /\ approval[a].pc = "commit"
  /\ log' = [l \in Logs |-> IF l \in approval[a].of THEN "approved" ELSE log[l]]
  /\ approval' = [approval EXCEPT ![a].pc = "hook", ![a].of = {}]
  /\ UNCHANGED <<total, milestones, edited, profileForm, unsummed, lost>>

\* _recompute_total_hours: the lock, then SUM of what is committed ...
SumHours(a) ==
  /\ approval[a].pc = "hook" /\ ~ProfileLocked
  /\ approval' = [approval EXCEPT ![a].pc = "update", ![a].new = HoursIn[Approved]]
  /\ unsummed' = FALSE
  /\ UNCHANGED <<log, total, milestones, edited, profileForm, lost>>

\* (Mutant.)  A threshold reached exactly is not crossed.
CrossedStrictly(old, new) == {t \in Thresholds : old < t /\ t < new}

Crossed(old, new) == {t \in Thresholds : old < t /\ t <= new}

\* ... and UPDATE, which commits.
StoreTotal(a) ==
  /\ approval[a].pc = "update"
  /\ total' = approval[a].new
  /\ approval' = [approval EXCEPT ![a] =
       [NoApproval EXCEPT !.pc = "record", !.due = Crossed(approval[a].old, approval[a].new)]]
  /\ UNCHANGED <<log, milestones, edited, profileForm, unsummed, lost>>

\* _check_milestones: get_or_create of each, a statement of its own.
RecordMilestone(a, t) ==
  /\ approval[a].pc = "record" /\ t \in approval[a].due
  /\ milestones' = milestones \cup {t}
  /\ approval' = [approval EXCEPT ![a].due = @ \ {t}]
  /\ UNCHANGED <<log, total, edited, profileForm, unsummed, lost>>

ApprovalEnds(a) ==
  /\ approval[a].pc = "record" /\ approval[a].due = {}
  /\ approval' = [approval EXCEPT ![a] = NoApproval]
  /\ UNCHANGED <<log, total, milestones, edited, profileForm, unsummed, lost>>

\* The worker is lost: an open transaction is rolled back, the rest of a hook is not done.
WorkerLost(a) ==
  /\ approval[a].pc # "idle"
  /\ approval' = [approval EXCEPT ![a] = NoApproval]
  /\ unsummed' = (unsummed \/ approval[a].pc \in {"hook", "update"})
  /\ lost' = lost \cup approval[a].due
  /\ UNCHANGED <<log, total, milestones, edited, profileForm>>

----------------------------------------------------------------------------
(* The form of HoursLogAdmin, not for a log that it reads as approved; and  *)
(* that of VolunteerProfileAdmin, which shows the total and saves it back.  *)

FormOpens(l) ==
  /\ log[l] \in {"pending", "rejected"}
  /\ l \notin edited /\ Cardinality(edited) < MaxEdited
  /\ edited' = edited \cup {l}
  /\ UNCHANGED <<log, total, milestones, approval, profileForm, unsummed, lost>>

FormStores(l, status) ==
  /\ l \in edited /\ ~RowLocked(l)
  /\ log' = [log EXCEPT ![l] = status]
  /\ edited' = edited \ {l}
  /\ unsummed' = (unsummed \/ Approved' # Approved)
  /\ UNCHANGED <<total, milestones, approval, profileForm, lost>>

ProfileFormOpens ==
  /\ profileForm = {}
  /\ profileForm' = {total}
  /\ UNCHANGED <<log, total, milestones, approval, edited, unsummed, lost>>

ProfileFormStores(read) ==
  /\ read \in profileForm /\ ~ProfileLocked
  /\ total' = read
  /\ profileForm' = {}
  /\ unsummed' = (unsummed \/ total' # total)
  /\ UNCHANGED <<log, milestones, approval, edited, lost>>

HoursNext ==
  \/ \E l \in Logs : \/ LogHours(l) \/ RejectHours(l) \/ FormOpens(l)
                     \/ \E s \in LogStatuses \ {"none"} : FormStores(l, s)
  \/ ProfileFormOpens
  \/ \E read \in profileForm : ProfileFormStores(read)
  \/ \E a \in Approvers : \/ \E l \in Logs : ApproveHours(a, l)
                          \/ ApprovalCommits(a) \/ SumHours(a) \/ StoreTotal(a)
                          \/ \E t \in Thresholds : RecordMilestone(a, t)
                          \/ ApprovalEnds(a) \/ WorkerLost(a)

HoursSpec == HoursInit /\ [][HoursNext]_hoursVars

----------------------------------------------------------------------------
\* The stored total is the sum of the approved logs once no approval has its hook
\* before it, however approvals overlap; a lost worker or a back-office edit leaves it
\* wrong only until the next recomputation (_recompute_total_hours).
TotalIsApproved ==
  \/ total = HoursIn[Approved]
  \/ unsummed
  \/ \E a \in Approvers : approval[a].pc \in {"hook", "update"}

\* Who reaches a threshold has its milestone, or an approval is about to record it, or
\* the worker that was to record it has been lost: no interleaving of approvals, each
\* comparing with a total it read before it committed, lets all of them pass a
\* threshold by (_check_milestones).
CrossedIsMarked ==
  \A t \in Thresholds : t <= total =>
    \/ t \in milestones
    \/ t \in lost
    \/ \E a \in Approvers : t \in approval[a].due
=============================================================================
