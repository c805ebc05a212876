------------------------------ MODULE MCHandover ------------------------------
(* TLC instances of the modules that hand work over after a commit: a       *)
(* behaviour is one of an alert schedule, of the admission of bulk payments *)
(* or of that of bill notifications, which share no row with them.          *)
EXTENDS AlertDelivery, PaymentIntake, TLC
CONSTANTS q1, q2, q3, n1, n2, i1, i2, i3, b1, b2, c1

VARIABLE part

MCInit == Init /\ IntakeInit /\ part \in {"alerts", "commands", "bills"}

MCNext ==
  /\ UNCHANGED part
  /\ \/ part = "alerts" /\ Next /\ UNCHANGED intakeVars
     \/ part = "commands" /\ IntakeNext /\ UNCHANGED <<transfer, bill, vars>>
     \/ part = "bills" /\ IntakeNext /\ UNCHANGED <<command, vars>>

MCSpec == MCInit /\ [][MCNext]_<<vars, intakeVars, part>>

\* Three bulk requests, two sharing an identity and two a batch; two
\* notifications of one bill.
MCIdentity == (q1 :> i1) @@ (q2 :> i1) @@ (q3 :> i2) @@ (n1 :> i3) @@ (n2 :> i3)
MCBatch == (q1 :> b1) @@ (q2 :> b2) @@ (q3 :> b1)
MCBill == (n1 :> c1) @@ (n2 :> c1)

\* The parts share model values: delivery workers are consumers, publishers
\* servers.
Symmetry == Permutations(Workers) \cup Permutations(Publishers)
=============================================================================
