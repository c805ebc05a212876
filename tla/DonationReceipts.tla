-------------------------- MODULE DonationReceipts --------------------------
(***************************************************************************)
(* Official donation receipts of one donor: issued when a donation         *)
(* completes or by the annual run, then rendered and e-mailed by a task.   *)
(*                                                                         *)
(* Source: apps/payments/receivers.py (on_donation_completed),             *)
(*         tasks_receipts.py, services/receipt_email.py.                   *)
(*                                                                         *)
(* One action is one transaction, one unlocked read or one e-mail.  A      *)
(* receipt is named by its anchor donation; no code outside the model      *)
(* class cancels or supersedes one, so an issued receipt stays issued.     *)
(***************************************************************************)
EXTENDS Integers, FiniteSets

CONSTANTS
  Charges,        \* the donor's possible donations, named by their charge
  Eligible,       \* those whose eligible amount is positive
  CreatedAt,      \* CreatedAt[c]: position in the order of creation
  Settings,       \* the charity's CRA configuration
  Years,          \* tax years of the annual run
  InYear,         \* InYear[y]: donations inside year y's window
  ReceiptWorkers, \* processes of the receipts queue
  MaxMails,       \* bound on copies of one receipt's e-mail
  Nil

ASSUME ReceiptAssumption ==
  /\ Eligible \subseteq Charges
  /\ CreatedAt \in [Charges -> Nat]
  /\ InYear \in [Years -> SUBSET Charges]
  /\ MaxMails \in Nat

VARIABLES
  alive,      \* the objects of this behaviour, fixed at the start
  donation,   \* completed Donation rows
  charity,    \* an active CharitySettings row exists
  receipt,    \* receipt[c]: the issued receipt anchored at c
  rmessages,  \* generate_and_send_receipt messages
  rworker,    \* the receipt workers
  annual      \* the annual run in progress

receiptVars == <<charity, receipt, rmessages, rworker, annual>>

NoReceipt == [covers |-> {}, doc |-> FALSE, sent |-> FALSE, mails |-> 0]
NewReceipt(covers) == [NoReceipt EXCEPT !.covers = covers]
Issued(c) == receipt[c].covers # {}

RIdle == [pc |-> "idle", item |-> Nil]
NoRun == [pc |-> "off", year |-> Nil, todo |-> {}]

ReceiptInit ==
  /\ charity \in {(Settings \in alive), FALSE}
  /\ receipt = [c \in Charges |-> NoReceipt]
  /\ rmessages = {}
  /\ rworker = [w \in ReceiptWorkers |-> RIdle]
  /\ annual = NoRun

----------------------------------------------------------------------------
(* Issuing.                                                                *)

\* A new receipt, then its task on commit; the message may be lost there.
Issue(c, covers) ==
  /\ receipt' = [receipt EXCEPT ![c] = NewReceipt(covers)]
  /\ rmessages' \in {rmessages, rmessages \cup {c}}

\* The hook on donation_completed.  Only an issued receipt of this very
\* donation blocks it.
OnDonationCompleted(c) ==
  IF c \in Eligible /\ charity /\ ~Issued(c)
  THEN Issue(c, {c}) /\ UNCHANGED <<charity, rworker, annual>>
  ELSE UNCHANGED receiptVars

CompletedIn(y) == donation \cap Eligible \cap InYear[y]

\* generate_annual_receipts reads the year's donations once ...
AnnualStart(y) ==
  /\ annual.pc = "off" /\ charity
  /\ CompletedIn(y) # {}
  /\ annual' = [pc |-> "check", year |-> y, todo |-> CompletedIn(y)]
  /\ UNCHANGED <<alive, donation, charity, receipt, rmessages, rworker>>

\* ... looks for any receipt the donor has in that year ...
AnnualCheck ==
  /\ annual.pc = "check"
  /\ annual' = IF \E c \in InYear[annual.year] : Issued(c) THEN NoRun
               ELSE [annual EXCEPT !.pc = "issue"]
  /\ UNCHANGED <<alive, donation, charity, receipt, rmessages, rworker>>

Anchor(todo) == CHOOSE c \in todo : \A d \in todo : CreatedAt[c] <= CreatedAt[d]

\* ... and issues one for all of them; the unique constraint on the anchor
\* refuses a second one.
AnnualIssue ==
  LET c == Anchor(annual.todo)
  IN  /\ annual.pc = "issue"
      /\ annual' = NoRun
      /\ IF Issued(c) THEN UNCHANGED <<receipt, rmessages>> ELSE Issue(c, annual.todo)
      /\ UNCHANGED <<alive, donation, charity, rworker>>

\* One transaction for the whole run: a lost worker issues nothing.
AnnualAborts ==
  /\ annual.pc # "off"
  /\ annual' = NoRun
  /\ UNCHANGED <<alive, donation, charity, receipt, rmessages, rworker>>

\* Staff (de)activate the charity settings.
SetCharity ==
  /\ Settings \in alive
  /\ charity' = ~charity
  /\ UNCHANGED <<alive, donation, receipt, rmessages, rworker, annual>>

----------------------------------------------------------------------------
(* generate_and_send_receipt.                                              *)

RBecome(w, pc, c) == rworker' = [rworker EXCEPT ![w] = [pc |-> pc, item |-> c]]
RAt(w, pc, c) == rworker[w] = [pc |-> pc, item |-> c]

\* acks_late: a copy may become visible again while the task runs.
ReceiveReceipt(w, c) ==
  /\ rworker[w] = RIdle /\ c \in rmessages
  /\ rmessages' \in {rmessages, rmessages \ {c}}
  /\ RBecome(w, "render", c)
  /\ UNCHANGED <<alive, donation, charity, receipt, annual>>

\* (Mutant.)  Delivery is recorded with the document.
RenderedAndSent(r) == [r EXCEPT !.doc = TRUE, !.sent = TRUE]

Rendered(r) == [r EXCEPT !.doc = TRUE]

\* Phase 1, under the row lock: nothing to do once sent; else a document exists
\* afterwards.
Render(w, c) ==
  /\ RAt(w, "render", c)
  /\ IF receipt[c].sent
     THEN rworker' = [rworker EXCEPT ![w] = RIdle] /\ UNCHANGED receipt
     ELSE RBecome(w, "mail", c) /\ receipt' = [receipt EXCEPT ![c] = Rendered(@)]
  /\ UNCHANGED <<alive, donation, charity, rmessages, annual>>

\* Phase 2: the e-mail, outside any transaction ...
Mail(w, c) ==
  /\ RAt(w, "mail", c)
  /\ receipt[c].mails < MaxMails
  /\ receipt' = [receipt EXCEPT ![c].mails = @ + 1]
  /\ RBecome(w, "mark", c)
  /\ UNCHANGED <<alive, donation, charity, rmessages, annual>>

\* ... and only then email_sent.
MarkSent(w, c) ==
  /\ RAt(w, "mark", c)
  /\ receipt' = [receipt EXCEPT ![c].sent = TRUE]
  /\ rworker' = [rworker EXCEPT ![w] = RIdle]
  /\ UNCHANGED <<alive, donation, charity, rmessages, annual>>

\* The task raises and is retried, or its worker is lost and the broker
\* redelivers; after the last retry the message is gone.
ReceiptTaskEnds(w, c) ==
  /\ rworker[w].pc # "idle" /\ rworker[w].item = c
  /\ rworker' = [rworker EXCEPT ![w] = RIdle]
  /\ rmessages' \in {rmessages, rmessages \cup {c}}
  /\ UNCHANGED <<alive, donation, charity, receipt, annual>>

----------------------------------------------------------------------------
ReceiptNext ==
  \/ \E y \in Years : AnnualStart(y)
  \/ AnnualCheck \/ AnnualIssue \/ AnnualAborts \/ SetCharity
  \/ \E w \in ReceiptWorkers, c \in Charges :
       ReceiveReceipt(w, c) \/ Render(w, c) \/ Mail(w, c) \/ MarkSent(w, c)
         \/ ReceiptTaskEnds(w, c)

\* A receipt is marked delivered only after its document was handed to the mail
\* transport, wherever the task is killed, retried or run twice
\* (generate_and_send_receipt).
SentIsMailed ==
  \A c \in Charges : receipt[c].sent => receipt[c].doc /\ receipt[c].mails > 0
=============================================================================
