---------------------------- MODULE VolunteerShifts ----------------------------
(***************************************************************************)
(* One shift of a volunteer opportunity: its places, its waitlist, its     *)
(* cancellation, and the back-office form that saves the whole row.        *)
(*                                                                         *)
(* Source: apps/volunteers/services/scheduling.py, models.py, admin.py.    *)
(*                                                                         *)
(* Every service locks the row it decides about (the shift, or for the two *)
(* attendance marks the booking) and checks again under the lock what it   *)
(* checked before: one action each.  Only book_shift checks something that *)
(* is not checked again, that the shift has not begun and the application  *)
(* is approved (any volunteer's may be).  The form locks nothing: it reads *)
(* the row when it is submitted and writes every column of it.             *)
(***************************************************************************)
EXTENDS Integers, FiniteSets, FiniteSetsExt

CONSTANTS
  Volunteers,   \* volunteers who may book
  Staff,        \* back-office requests that save the shift's form
  Capacities,   \* capacities the form may give (unlimited: as many as volunteers)
  WaitlistCap,  \* Shift.waitlist_cap
  MaxAsked      \* bound on the bookings under way at once

ASSUME ShiftAssumption ==
  /\ IsFiniteSet(Volunteers)
  /\ Capacities # {} /\ Capacities \subseteq Nat
  /\ WaitlistCap \in Nat /\ MaxAsked \in Nat

VARIABLES
  shift,     \* the Shift row
  phase,     \* where now is with respect to start_datetime and end_datetime
  booking,   \* the ShiftBooking row of each volunteer
  asked,     \* volunteers whose book_shift is past its unlocked checks
  form,      \* the row each back-office request has read
  ahead,     \* history: who joined the waitlist before a volunteer and still waits
  sizes,     \* history: the capacities the shift has had
  closed,    \* history: the waitlist has been disabled
  stale      \* history: a form has written back an is_cancelled that had changed

shiftVars == <<shift, phase, booking, asked, form, ahead, sizes, closed, stale>>

Shifts == [cancelled: BOOLEAN, capacity: Capacities, waitlist: BOOLEAN]
NoForm == [cancelled |-> FALSE, capacity |-> -1, waitlist |-> FALSE]
\* status: none, confirmed, waitlisted, cancelled, no_show or completed
NoBooking == [status |-> "none", position |-> 0]

With(status) == {v \in Volunteers : booking[v].status = status}
Confirmed == With("confirmed")
Waitlisted == With("waitlisted")

\* history variables a booking operation leaves alone
formVars == <<form, sizes, closed, stale>>

ShiftInit ==
  /\ shift \in [cancelled: {FALSE}, capacity: Capacities, waitlist: BOOLEAN]
  /\ phase = "before"
  /\ booking = [v \in Volunteers |-> NoBooking]
  /\ asked = {}
  /\ form = [s \in Staff |-> NoForm]
  /\ ahead = [v \in Volunteers |-> {}]
  /\ sizes = {shift.capacity}
  /\ closed = ~shift.waitlist
  /\ stale = FALSE

----------------------------------------------------------------------------
(* book_shift.                                                             *)

BookShift(v) ==
  /\ v \notin asked /\ Cardinality(asked) < MaxAsked
  /\ ~shift.cancelled /\ phase = "before"
  /\ asked' = asked \cup {v}
  /\ UNCHANGED <<shift, phase, booking, ahead, formVars>>

HasPlace == Cardinality(Confirmed) < shift.capacity
CanWait == shift.waitlist /\ Cardinality(Waitlisted) < WaitlistCap

\* (Mutant.)  The next position counts those who wait.
NextPositionCounted == Cardinality(Waitlisted) + 1

\* one past the last of those who wait now; a promotion leaves a gap
NextPosition == Max({booking[w].position : w \in Waitlisted} \cup {0}) + 1

\* (Mutant.)  is_cancelled is not checked again under the lock.
BookableUnchecked(v) == booking[v] = NoBooking

\* unique_together: a volunteer has one row on a shift, ever
Bookable(v) == ~shift.cancelled /\ booking[v] = NoBooking

Confirm(v) ==
  /\ Bookable(v) /\ HasPlace
  /\ booking' = [booking EXCEPT ![v] = [status |-> "confirmed", position |-> 0]]
  /\ UNCHANGED ahead

Wait(v) ==
  /\ Bookable(v) /\ ~HasPlace /\ CanWait
  /\ booking' = [booking EXCEPT ![v] = [status |-> "waitlisted", position |-> NextPosition]]
  /\ ahead' = [ahead EXCEPT ![v] = Waitlisted]

TurnAway(v) ==
  /\ ~Bookable(v) \/ (~HasPlace /\ ~CanWait)
  /\ UNCHANGED <<booking, ahead>>

BookCommits(v) ==
  /\ v \in asked
  /\ asked' = asked \ {v}
  /\ Confirm(v) \/ Wait(v) \/ TurnAway(v)
  /\ UNCHANGED <<shift, phase, formVars>>

----------------------------------------------------------------------------
(* cancel_booking.                                                         *)

Drop(v) == [booking EXCEPT ![v].status = "cancelled"]

\* order_by("waitlist_position").first()
NextUp == {w \in Waitlisted : \A u \in Waitlisted : booking[w].position <= booking[u].position}

\* (Mutant.)  Any cancellation promotes, not only that of a confirmed booking.
PromotesAlways(v) == shift.waitlist /\ Waitlisted # {}

Promotes(v) == booking[v].status = "confirmed" /\ shift.waitlist /\ Waitlisted # {}

\* v waits no longer.
Left(v) == [u \in Volunteers |-> IF u = v THEN {} ELSE ahead[u] \ {v}]

\* The cancelled row keeps its position.
CancelBooking(v) ==
  /\ ~shift.cancelled
  /\ booking[v].status \in {"confirmed", "waitlisted"}
  /\ IF Promotes(v)
     THEN \E w \in NextUp :
            /\ booking' = [Drop(v) EXCEPT ![w] = [status |-> "confirmed", position |-> 0]]
            /\ ahead' = Left(w)
     ELSE booking' = Drop(v) /\ ahead' = Left(v)
  /\ UNCHANGED <<shift, phase, asked, formVars>>

----------------------------------------------------------------------------
(* The attendance marks, which lock the booking only.                      *)

Marked(v, status) ==
  /\ booking[v].status = "confirmed"
  /\ booking' = [booking EXCEPT ![v].status = status]
  /\ UNCHANGED <<shift, phase, asked, ahead, formVars>>

MarkNoShow(v) == phase # "before" /\ Marked(v, "no_show")

CompleteBooking(v) == phase = "ended" /\ Marked(v, "completed")

----------------------------------------------------------------------------
(* cancel_shift, and the form of ShiftAdmin.                               *)

CancelShift ==
  /\ ~shift.cancelled
  /\ shift' = [shift EXCEPT !.cancelled = TRUE]
  /\ booking' = [v \in Volunteers |->
       IF v \in Confirmed \cup Waitlisted THEN [booking[v] EXCEPT !.status = "cancelled"]
       ELSE booking[v]]
  /\ ahead' = [v \in Volunteers |-> {}]
  /\ UNCHANGED <<phase, asked, formVars>>

FormReads(s) ==
  /\ form[s] = NoForm
  /\ form' = [form EXCEPT ![s] = shift]
  /\ UNCHANGED <<shift, phase, booking, asked, ahead, sizes, closed, stale>>

\* is_cancelled is shown and not edited, but saved with the rest as it was read.
FormSaves(s, capacity, waitlist) ==
  /\ form[s] # NoForm
  /\ shift' = [form[s] EXCEPT !.capacity = capacity, !.waitlist = waitlist]
  /\ form' = [form EXCEPT ![s] = NoForm]
  /\ sizes' = sizes \cup {capacity}
  /\ closed' = (closed \/ ~waitlist)
  /\ stale' = (stale \/ form[s].cancelled # shift.cancelled)
  /\ UNCHANGED <<phase, booking, asked, ahead>>

Clock ==
  /\ phase' = CASE phase = "before" -> "started" [] phase = "started" -> "ended"
                [] OTHER -> "ended"
  /\ phase' # phase
  /\ UNCHANGED <<shift, booking, asked, ahead, formVars>>

ShiftNext ==
  \/ \E v \in Volunteers : \/ BookShift(v) \/ BookCommits(v) \/ CancelBooking(v)
                           \/ MarkNoShow(v) \/ CompleteBooking(v)
  \/ CancelShift
  \/ \E s \in Staff : \/ FormReads(s)
                      \/ \E c \in Capacities, w \in BOOLEAN : FormSaves(s, c, w)
  \/ Clock

ShiftSpec == ShiftInit /\ [][ShiftNext]_shiftVars

----------------------------------------------------------------------------
\* Concurrent bookings, cancellations with their promotions and edits of the
\* capacity never confirm more volunteers than the shift has ever had places; and
\* before it starts nobody waits while a place is free: a cancelled place goes to
\* who waits, as long as staff leave the capacity and the waitlist alone (book_shift,
\* cancel_booking).
PlacesAreShared ==
  /\ Cardinality(Confirmed) <= Max(sizes)
  /\ (phase = "before" /\ ~closed /\ Waitlisted # {}) => Cardinality(Confirmed) >= Min(sizes)

\* Only the volunteer who has waited longest is promoted, whoever left the waitlist or
\* was promoted in between (next_pos, and the order of next_up).
WaitlistInOrder ==
  [][\A v \in Volunteers :
       v \in Waitlisted /\ v \in Confirmed' => ahead[v] = {}]_shiftVars

\* A cancelled shift keeps no confirmed or waiting volunteer, though bookings and
\* cancellations may be under way when it is cancelled; the form of the back office is
\* the exception, since it can write back an is_cancelled that has changed (cancel_shift,
\* the second check of book_shift).
CancelledIsEmpty == shift.cancelled /\ ~stale => Confirmed \cup Waitlisted = {}
=============================================================================
