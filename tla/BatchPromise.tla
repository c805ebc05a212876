---------------------------- MODULE BatchPromise ----------------------------
(***************************************************************************)
(* What the processing of a bulk batch promises, whatever tasks, leases    *)
(* and late evidence do underneath: decisions are made one after another,  *)
(* each under a later term than those before it; a decision leaves the     *)
(* batch open or concludes it; the conclusion is what the provider did     *)
(* with each payment, the payer is told once, and it is never revised.     *)
(***************************************************************************)
EXTENDS Naturals

CONSTANTS
  Payments,  \* the instructions of the batch
  Terms      \* the terms decisions are made under, numbered

VARIABLES
  books,    \* books[p]: what the provider did with the payment
  outcome,  \* the result of the batch, NoOutcome while it is open
  told,     \* the conclusions the payer is told
  terms     \* the terms under which decisions have been made

vars == <<books, outcome, told, terms>>

NoOutcome == [status |-> "open", completed |-> {}, failed |-> {}]

With(result) == {p \in Payments : books[p] = result}

\* The one result that tells the truth.
Truth ==
  [status    |-> IF With("rejected") = {} THEN "completed"
                 ELSE IF With("settled") = {} THEN "failed" ELSE "partial",
   completed |-> With("settled"),
   failed    |-> With("rejected")]

Init ==
  /\ books \in [Payments -> {"settled", "rejected"}]
  /\ outcome = NoOutcome /\ told = {} /\ terms = {}

\* A term nobody has decided under, after all those somebody has.
TakeTerm ==
  \E n \in Terms : (\A m \in terms : m < n) /\ terms' = terms \cup {n}

Postpone ==
  /\ outcome = NoOutcome
  /\ TakeTerm
  /\ UNCHANGED <<books, outcome, told>>

\* Funds are returned for rejected payments only.
Conclude ==
  /\ outcome = NoOutcome
  /\ TakeTerm
  /\ outcome' = Truth
  /\ \/ told' = {"terminal"}
     \/ told' = {"return_funds"} /\ With("rejected") # {}
  /\ UNCHANGED books

Next == Postpone \/ Conclude

Spec == Init /\ [][Next]_vars
=============================================================================
