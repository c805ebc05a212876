--------------------------- MODULE PaymentPromise ---------------------------
(***************************************************************************)
(* What the execution of payment attempts promises, whatever workers,      *)
(* claims, sweeps and messages do underneath: a payment is submitted at    *)
(* most once, the provider decides it once, and the verdict recorded is    *)
(* the provider's and is never revised.                                    *)
(***************************************************************************)
EXTENDS Naturals

CONSTANT Attempts

VARIABLES
  submits,  \* submits[a]: calls of the provider's submit
  books,    \* books[a]: the payment in the provider's books
  verdict   \* verdict[a]: the finality recorded for a, "open" while there is none

vars == <<submits, books, verdict>>

Decision == {"settled", "rejected"}

Init ==
  /\ submits = [a \in Attempts |-> 0]
  /\ books \in [Attempts -> {"none", "pending"}]
  /\ verdict = [a \in Attempts |-> "open"]

\* The provider may know, refuse, accept or decide the payment at once.
SubmitPayment(a) ==
  /\ submits[a] = 0
  /\ submits' = [submits EXCEPT ![a] = 1]
  /\ \/ UNCHANGED books
     \/ books[a] = "none" /\ \E x \in {"pending"} \cup Decision :
                                books' = [books EXCEPT ![a] = x]
  /\ UNCHANGED verdict

Decide(a) ==
  /\ books[a] = "pending"
  /\ \E x \in Decision : books' = [books EXCEPT ![a] = x]
  /\ UNCHANGED <<submits, verdict>>

RecordVerdict(a) ==
  /\ verdict[a] = "open" /\ books[a] \in Decision
  /\ verdict' = [verdict EXCEPT ![a] = books[a]]
  /\ UNCHANGED <<submits, books>>

Next == \E a \in Attempts : SubmitPayment(a) \/ Decide(a) \/ RecordVerdict(a)

Spec == Init /\ [][Next]_vars
=============================================================================
