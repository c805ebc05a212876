------------------------------ MODULE MCBooking ------------------------------
(* TLC instances of Booking.                                               *)
EXTENDS Booking, TLC

VARIABLE part

\* Requests, citizens and booking keys are interchangeable; slots are ordered.
Symmetry == Permutations(Requests) \cup Permutations(Citizens) \cup Permutations(Bookings)

\* One place in slot 1, and one or two in slot 2.
MCCapacities == [s \in Slots |-> 1 .. s]

\* Calls that move, cancel or reject a booking, or make it exclusive; and those
\* that end it, perhaps giving up the exclusive flag in the same call.
MCModifications ==
  {<<s, None, None>> : s \in Slots} \cup
  {<<None, "rejected", None>>, <<None, "cancelled", None>>, <<None, None, TRUE>>,
   <<None, "completed", None>>, <<None, "completed", FALSE>>}

\* A behaviour is one of calls and staff edits, or of calls at the end of a day.
Ending(q) ==
  \/ q.kind \in {"idle", "create", "noShow", "past"}
  \/ q.kind = "modify" /\ q.target = None /\ q.status \in {"cancelled", "completed"}

Calling(q) ==
  q.kind \in {"idle", "create"} \/ (q.kind = "modify" /\ q.exclusive # FALSE)

MCInit ==
  /\ Init
  /\ part \in {"calls", "day's end"}
  /\ part = "day's end" => \A s \in Slots : slot[s].capacity = s

MCNext ==
  /\ Next /\ UNCHANGED part
  /\ part = "calls" => \A r \in Requests : Calling(request'[r])
  /\ part = "day's end" => /\ \A r \in Requests : Ending(request'[r])
                           /\ UNCHANGED slot \/ request' # request

MCSpec == MCInit /\ [][MCNext]_<<vars, part>>
=============================================================================
