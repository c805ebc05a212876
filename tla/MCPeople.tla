------------------------------- MODULE MCPeople -------------------------------
(* TLC instances of the modules about people, which share no rows: a        *)
(* behaviour is one of consent records, of exports, of a shift, of a        *)
(* volunteer's hours or of a volunteer's honoraria.                         *)
EXTENDS Consent, ConsentExport, VolunteerShifts, VolunteerHours, Honoraria, TLC

VARIABLE part

MCInit ==
  /\ Init /\ ExportInit /\ ShiftInit /\ HoursInit /\ HonorariaInit
  /\ part \in {"records", "exports", "shift", "hours", "honoraria"}
  /\ part = "shift" \/ shift = [cancelled |-> FALSE, capacity |-> Min(Capacities), waitlist |-> TRUE]

MCNext ==
  /\ UNCHANGED part
  /\ \/ /\ part = "records" /\ Next
        /\ UNCHANGED <<exportVars, shiftVars, hoursVars, honorariaVars>>
     \/ /\ part = "exports" /\ ExportNext
        /\ UNCHANGED <<vars, shiftVars, hoursVars, honorariaVars>>
     \/ /\ part = "shift" /\ ShiftNext
        /\ UNCHANGED <<vars, exportVars, hoursVars, honorariaVars>>
     \/ /\ part = "hours" /\ HoursNext
        /\ UNCHANGED <<vars, exportVars, shiftVars, honorariaVars>>
     \/ /\ part = "honoraria" /\ HonorariaNext
        /\ UNCHANGED <<vars, exportVars, shiftVars, hoursVars>>

MCSpec == MCInit /\ [][MCNext]_<<vars, exportVars, shiftVars, hoursVars, honorariaVars, part>>

\* Each log is of two hours.
MCHoursIn == [S \in SUBSET Logs |-> 2 * Cardinality(S)]

\* The parts share their model values; within each the members of a set are
\* interchangeable (of the volunteers, those who are also requests).
Symmetry == Permutations(Requests) \cup Permutations(Revisions)
=============================================================================
