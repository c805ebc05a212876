------------------------------ MODULE MCPayments ------------------------------
(* TLC instances of the bulk batch, of the callback outbox and of the books *)
(* of Stripe payments: a behaviour is one of the batch, whose callbacks are *)
(* rows, one of callbacks, or one of donations, fees and refunds.           *)
EXTENDS BulkBatch, CallbackOutbox, StripeLedger, TLC
CONSTANTS g1, h1, f1, n1, m1, p1, r1, r2, y1

VARIABLE part

MCInit ==
  /\ Init /\ OutboxInit /\ LedgerInit
  /\ part \in {"batch", "callbacks", "books"}
  /\ part = "batch" => copies = [t \in Tasks |-> MaxCopies]
  /\ part = "batch" \/ /\ instruction = [a \in Attempts |-> "pending"]
                       /\ copies = [t \in Tasks |-> 1]
                       /\ ext = [a \in Attempts |-> "settled"]
  /\ part = "callbacks" \/ validation = [c \in Callbacks |-> "pending"]
  /\ part = "books" \/ alive = {f1}

MCNext ==
  /\ UNCHANGED part
  /\ \/ part = "batch" /\ Next /\ UNCHANGED <<outboxVars, moneyVars>>
     \/ part = "callbacks" /\ OutboxNext /\ UNCHANGED <<vars, moneyVars>>
     \/ part = "books" /\ LedgerNext /\ UNCHANGED <<vars, outboxVars>>

MCSpec == MCInit /\ [][MCNext]_<<vars, outboxVars, moneyVars, part>>

MCCharges == {g1, h1, f1, n1, m1}
MCEligible == {g1, h1, n1, m1}
MCCreatedAt == (g1 :> 1) @@ (n1 :> 2) @@ (f1 :> 4) @@ (h1 :> 8) @@ (m1 :> 16)
MCInYear == y1 :> {g1, h1, n1, m1}
\* h1 is a gift to be repeated: it gets a payment, and no donation or receipt.
MCCases == {{g1, r1, r2}, {f1}, {p1}, {n1, m1, Settings}, {g1, Settings}, {h1, Settings}}

\* The parts share model values: the instructions are also callbacks, the
\* workers handle both batches and events, and the two refunds name the
\* provider's observations.
Symmetry == Permutations(Workers) \cup Permutations(Attempts) \cup Permutations(ObsIds)
=============================================================================
