---------------------------- MODULE StripeLedger ----------------------------
(***************************************************************************)
(* Stripe payments: payment intents, the webhook inbox and its task, the   *)
(* books it keeps (payments, donations, a recurring plan), refunds by      *)
(* staff, and Stripe's own books.                                          *)
(*                                                                         *)
(* Source: apps/payments/views/{donation,fee_payment,webhook,refund}.py,   *)
(*         tasks.py, models.py, gateways/stripe_gateway.py.                *)
(*                                                                         *)
(* One action is one transaction, one unlocked read or one call of Stripe. *)
(* An event is named by its type and its object and is emitted once;       *)
(* events are delivered in any order.  alive, fixed at the start, names    *)
(* the objects of a behaviour.                                             *)
(***************************************************************************)
EXTENDS DonationReceipts, FiniteSetsExt

CONSTANTS
  Gifts,        \* donation intents, named by their charge
  Recurring,    \* those the donor asked to repeat (metadata is_recurring = "1")
  Fees,         \* service fee intents, named by their charge
  Renewals,     \* renewal charges of the recurring plan
  Failing,      \* those that may also fail (a bound)
  Plan,         \* the recurring plan
  Refunds,      \* refunds, by staff or in Stripe's dashboard
  Amount,       \* amount of every charge
  EventWorkers, \* processes running process_stripe_webhook
  Cases         \* sets of objects that take part together

Intents == Gifts \cup Fees

\* Charges are named by Stripe's identifiers: each is of one kind, and Nil is none
\* of them.
ASSUME LedgerAssumption ==
  /\ Charges = Intents \cup Renewals /\ Nil \notin Charges
  /\ Gifts \cap Fees = {} /\ Intents \cap Renewals = {}
  /\ Recurring \subseteq Gifts /\ Failing \subseteq Renewals
  /\ IsFiniteSet(Refunds)
  /\ Amount \in Nat \ {0}
  /\ Cases \subseteq SUBSET (Charges \cup Refunds \cup {Plan, Settings})

VARIABLES
  intent,        \* intent[i]: PaymentIntent.status
  payment,       \* charges with a Payment row
  plan,          \* RecurringGiftPlan: status, and a cancellation owed to Stripe
  refund,        \* refund[r]: the Refund row and the call its request still owes
  notice,        \* notice[r]: what the audit entry of charge.refunded says
  event,         \* event[e]: the WebhookEvent row
  eventMessages, \* process_stripe_webhook messages
  handler,       \* the workers that handle them
  stripe         \* Stripe's books

ledgerVars == <<intent, payment, plan, refund, notice, event, eventMessages, handler, stripe>>
moneyVars == <<alive, ledgerVars, donation, receiptVars>>

Events ==
  ({"succeeded", "failed"} \X Intents) \cup ({"paid", "unpaid"} \X Renewals)
    \cup ({"refunded"} \X Refunds)
    \cup ({"active", "paused", "canceled", "deleted"} \X {Plan})

HandlerIdle == [pc |-> "idle", item |-> Nil]
NoRefund == [status |-> "none", charge |-> Nil, amount |-> 0, call |-> "none"]

\* Plans are entered by staff; a subscription may be known to Stripe alone.
LedgerInit ==
  /\ alive \in Cases
  /\ intent = [i \in Intents |-> "none"]
  /\ payment = {} /\ donation = {}
  /\ plan \in [status: IF alive \cap ({Plan} \cup Renewals) # {} THEN {"none", "active"}
                       ELSE {"none"}, call: {"none"}]
  /\ refund = [r \in Refunds |-> NoRefund]
  /\ notice = [r \in Refunds |-> "none"]
  /\ event = [e \in Events |-> "none"]
  /\ eventMessages = {}
  /\ handler = [w \in EventWorkers |-> HandlerIdle]
  /\ stripe = [charged |-> {}, void |-> {}, plan |-> "active",
               refunded |-> [r \in Refunds |-> 0], of |-> [r \in Refunds |-> Nil]]
  /\ ReceiptInit

----------------------------------------------------------------------------
(* Stripe: every change of its books emits an event, once.                 *)

\* stripe_webhook stores an event once and dispatches it on commit; the message
\* may be lost there, and Stripe's repetitions are answered as duplicates.  The
\* time an event travels is part of the time its message waits.
Emit(types, obj) ==
  LET new == {e \in Events : e[1] \in types /\ e[2] = obj /\ event[e] = "none"}
  IN  /\ event' = [e \in Events |-> IF e \in new THEN "stored" ELSE event[e]]
      /\ eventMessages' \in {eventMessages, eventMessages \cup new}

NoEvent == UNCHANGED <<event, eventMessages>>

BooksOf(stripeNow) ==
  /\ stripe' = stripeNow
  /\ UNCHANGED <<alive, intent, payment, handler, donation, receiptVars, notice>>

\* Stripe.js confirms an intent whose secret the browser has; a declined card
\* may be followed by another one.
Charge(i) ==
  /\ intent[i] # "none" /\ i \notin stripe.charged \cup stripe.void
  /\ Emit({"succeeded"}, i)
  /\ BooksOf([stripe EXCEPT !.charged = @ \cup {i}])
  /\ UNCHANGED <<plan, refund>>

Decline(i) ==
  /\ intent[i] # "none" /\ i \notin stripe.charged \cup stripe.void
  /\ Emit({"failed"}, i)
  /\ BooksOf(stripe)
  /\ UNCHANGED <<plan, refund>>

Renew(n) ==
  /\ n \in alive /\ stripe.plan # "canceled" /\ n \notin stripe.charged
  /\ Emit({"paid"}, n)
  /\ BooksOf([stripe EXCEPT !.charged = @ \cup {n}])
  /\ UNCHANGED <<plan, refund>>

RenewalFails(n) ==
  /\ n \in Failing /\ Plan \in alive /\ stripe.plan # "canceled" /\ n \notin stripe.charged
  /\ Emit({"unpaid"}, n)
  /\ BooksOf(stripe)
  /\ UNCHANGED <<plan, refund>>

\* The subscription changes in Stripe's dashboard.
ChangeSubscription(s) ==
  /\ Plan \in alive /\ stripe.plan # "canceled"
  /\ Emit(IF s = "canceled" THEN {"canceled", "deleted"} ELSE {s}, Plan)
  /\ BooksOf([stripe EXCEPT !.plan = s])
  /\ UNCHANGED <<plan, refund>>

RefundedOf(c) ==
  MapThenSumSet(LAMBDA r : stripe.refunded[r], {r \in Refunds : stripe.of[r] = c})

\* Stripe never refunds more than it charged.
StripeRefunds(r, c, amount) ==
  /\ c \in stripe.charged /\ stripe.of[r] = Nil
  /\ RefundedOf(c) + amount <= Amount
  /\ Emit({"refunded"}, r)
  /\ BooksOf([stripe EXCEPT !.refunded[r] = amount, !.of[r] = c])

DashboardRefund(r, c) ==
  /\ r \in alive /\ refund[r].status = "none"
  /\ \E amount \in 1 .. Amount : StripeRefunds(r, c, amount)
  /\ UNCHANGED <<plan, refund>>

----------------------------------------------------------------------------
(* Requests.                                                               *)

Request ==
  UNCHANGED <<alive, payment, notice, handler, donation, receiptVars>>

\* create_donation_intent_api, create_payment_intent_api: Stripe's intent first,
\* then the row; a failure leaves the browser without the secret.
CreateIntent(i) ==
  /\ i \in alive /\ intent[i] = "none"
  /\ intent' = [intent EXCEPT ![i] = "pending"]
  /\ Request /\ NoEvent /\ UNCHANGED <<plan, refund, stripe>>

\* The cancel views void the intent at Stripe when the row is still pending,
\* and leave the row alone.
CancelIntent(i) ==
  /\ intent[i] = "pending" /\ i \notin stripe.charged \cup stripe.void
  /\ stripe' = [stripe EXCEPT !.void = @ \cup {i}]
  /\ Request /\ NoEvent /\ UNCHANGED <<intent, plan, refund>>

\* RecurringGiftCancelView.post: the row under its lock, Stripe after commit.
CancelPlan ==
  /\ Plan \in alive /\ plan.status \notin {"none", "cancelled"}
  /\ plan' = [status |-> "cancelled", call |-> "due"]
  /\ Request /\ NoEvent /\ UNCHANGED <<intent, refund, stripe>>

CancelAtStripe ==
  /\ plan.call = "due"
  /\ plan' = [plan EXCEPT !.call = "none"]
  /\ \/ stripe.plan # "canceled" /\ Emit({"deleted"}, Plan)
          /\ BooksOf([stripe EXCEPT !.plan = "canceled"])
     \/ NoEvent /\ BooksOf(stripe)
  /\ UNCHANGED refund

\* (Mutant.)  Refunds in flight do not count.
SettledOnly(r) == refund[r].status = "succeeded"

\* A failed refund does not count.
Live(r) == refund[r].status \in {"pending", "succeeded"}

AlreadyRefunded(c) ==
  MapThenSumSet(LAMBDA r : refund[r].amount,
                {r \in Refunds : Live(r) /\ refund[r].charge = c})

\* RefundConfirmView.post, under the lock of the Payment row.
RefundConfirm(r, c) ==
  /\ r \in alive /\ refund[r] = NoRefund /\ stripe.of[r] = Nil
  /\ c \in payment
  /\ c \in Intents => intent[c] = "completed"
  /\ \E amount \in 1 .. Amount :
       /\ amount <= Amount - AlreadyRefunded(c)
       /\ refund' = [refund EXCEPT ![r] = [status |-> "pending", charge |-> c,
                                           amount |-> amount, call |-> "due"]]
  /\ Request /\ NoEvent /\ UNCHANGED <<intent, plan, stripe>>

\* The call after commit: refunded, with its answer or without; or refused.
RefundAtStripe(r) ==
  /\ refund[r].call = "due"
  /\ \/ /\ StripeRefunds(r, refund[r].charge, refund[r].amount)
        /\ \E answer \in {"answered", "error"} : refund' = [refund EXCEPT ![r].call = answer]
     \/ BooksOf(stripe) /\ NoEvent
        /\ refund' = [refund EXCEPT ![r].call = "error"]
  /\ UNCHANGED plan

\* (Mutant.)  The row succeeds whatever the call says.
StatusAlways(call) == "succeeded"

StatusAfter(call) == IF call = "answered" THEN "succeeded" ELSE "failed"

RecordRefund(r) ==
  /\ refund[r].call \in {"answered", "error"}
  /\ refund' = [refund EXCEPT ![r].status = StatusAfter(refund[r].call), ![r].call = "none"]
  /\ Request /\ NoEvent /\ UNCHANGED <<intent, plan, stripe>>

\* The process dies with its hook: nothing repeats it.
RequestCrash ==
  /\ \/ \E r \in Refunds : refund[r].call # "none" /\ refund' = [refund EXCEPT ![r].call = "none"]
          /\ UNCHANGED plan
     \/ plan.call # "none" /\ plan' = [plan EXCEPT !.call = "none"] /\ UNCHANGED refund
  /\ Request /\ NoEvent /\ UNCHANGED <<intent, stripe>>

----------------------------------------------------------------------------
(* The webhook inbox and its task.                                         *)

HandlerBecomes(w, pc, item) == handler' = [handler EXCEPT ![w] = [pc |-> pc, item |-> item]]

\* process_stripe_webhook reads processed without a lock.  acks_late: a copy may
\* become visible again while it runs.
ReceiveEvent(w, e) ==
  /\ handler[w] = HandlerIdle /\ e \in eventMessages
  /\ eventMessages' \in {eventMessages, eventMessages \ {e}}
  /\ \/ event[e] = "stored" /\ HandlerBecomes(w, "handle", e)
     \/ event[e] = "processed" /\ UNCHANGED handler
  /\ UNCHANGED <<alive, intent, payment, plan, refund, notice, event, stripe, donation,
                 receiptVars>>

\* The books the handlers work on.
Books == [intent |-> intent, payment |-> payment, donation |-> donation,
          plan |-> plan, notice |-> notice]

IntentTransitions ==
  {<<"pending", "processing">>, <<"pending", "cancelled">>, <<"pending", "failed">>,
   <<"processing", "completed">>, <<"processing", "failed">>, <<"completed", "refunded">>}

MayBecome(from, to) == <<from, to>> \in IntentTransitions

\* The intents whose payment is entered as a donation of its own: not a fee, and
\* not a gift to be repeated, which is left to the renewals of a plan.
OneTime == Gifts \ Recurring

Completed(i) ==
  [Books EXCEPT !.intent[i] = "completed", !.payment = @ \cup {i},
                !.donation = @ \cup ({i} \cap OneTime)]

\* (Mutant.)  A refused transition is passed over in silence.
SucceededSilently(i) ==
  IF i \in payment \/ intent[i] \notin {"pending", "processing"} THEN {Books}
  ELSE {Completed(i)}

\* _handle_payment_intent_succeeded and _handle_one_time_donation: a pending
\* intent passes through processing; {} when the transition raises.
Succeeded(i) ==
  LET from == IF intent[i] = "pending" THEN "processing" ELSE intent[i]
  IN  IF i \in payment \/ intent[i] = "none" THEN {Books}
      ELSE IF MayBecome(from, "completed") THEN {Completed(i)} ELSE {}

\* (Mutant.)  The status is set without its transition.
FailedAnyway(i) ==
  {IF intent[i] = "none" THEN Books ELSE [Books EXCEPT !.intent[i] = "failed"]}

\* _handle_payment_intent_failed.
Failed(i) ==
  IF intent[i] = "none" THEN {Books}
  ELSE IF MayBecome(intent[i], "failed") THEN {[Books EXCEPT !.intent[i] = "failed"]} ELSE {}

\* _handle_invoice_payment_succeeded.
Paid(n) ==
  IF n \in payment \/ plan.status = "none" THEN {Books}
  ELSE {[Books EXCEPT !.payment = @ \cup {n}, !.donation = @ \cup {n}]}

\* _handle_invoice_payment_failed.
Unpaid ==
  {IF plan.status = "active" THEN [Books EXCEPT !.plan.status = "paused"] ELSE Books}

\* _handle_charge_refunded: a row with Stripe's id confirms it, otherwise staff
\* are asked to enter a refund they do not know.
RefundedNotice(r) ==
  IF stripe.of[r] \notin payment THEN {Books}
  ELSE {[Books EXCEPT !.notice[r] =
           IF refund[r].status = "succeeded" THEN "confirmed" ELSE "dashboard"]}

\* status_map.
PlanStatus(s) == IF s = "canceled" THEN "cancelled" ELSE s

\* _handle_subscription_updated.
Updated(s) ==
  {IF plan.status \in {"none", "cancelled"} THEN Books
   ELSE [Books EXCEPT !.plan.status = PlanStatus(s)]}

\* _handle_subscription_deleted.
Deleted ==
  {IF plan.status = "none" THEN Books ELSE [Books EXCEPT !.plan.status = "cancelled"]}

Handled(e) ==
  CASE e[1] = "succeeded" -> Succeeded(e[2])
    [] e[1] = "failed" -> Failed(e[2])
    [] e[1] = "paid" -> Paid(e[2])
    [] e[1] = "unpaid" -> Unpaid
    [] e[1] = "refunded" -> RefundedNotice(e[2])
    [] e[1] = "deleted" -> Deleted
    [] OTHER -> Updated(e[1])

\* The handler and processed = True in one transaction, then the hooks; a
\* handler that raises changes nothing and the task is not retried.
Handle(w, e) ==
  /\ handler[w] = [pc |-> "handle", item |-> e]
  /\ \/ \E b \in Handled(e) :
          /\ intent' = b.intent /\ payment' = b.payment /\ donation' = b.donation
          /\ plan' = b.plan /\ notice' = b.notice
          /\ event' = [event EXCEPT ![e] = "processed"]
          /\ IF b.donation = donation THEN HandlerBecomes(w, "idle", Nil) ELSE HandlerBecomes(w, "hook", e)
     \/ /\ Handled(e) = {}
        /\ HandlerBecomes(w, "idle", Nil)
        /\ UNCHANGED <<intent, payment, donation, plan, notice, event>>
  /\ UNCHANGED <<alive, refund, eventMessages, stripe, receiptVars>>

\* donation_completed after the commit.
RunHook(w, e) ==
  /\ handler[w] = [pc |-> "hook", item |-> e]
  /\ OnDonationCompleted(e[2])
  /\ HandlerBecomes(w, "idle", Nil)
  /\ UNCHANGED <<alive, donation, intent, payment, plan, refund, notice, event, eventMessages, stripe>>

\* reject_on_worker_lost: the message returns, the hook does not.
HandlerCrash(w) ==
  /\ handler[w] # HandlerIdle
  /\ eventMessages' = eventMessages \cup {handler[w].item}
  /\ HandlerBecomes(w, "idle", Nil)
  /\ UNCHANGED <<alive, intent, payment, plan, refund, notice, event, stripe, donation,
                 receiptVars>>

----------------------------------------------------------------------------
LedgerNext ==
  \/ \E i \in Intents : Charge(i) \/ Decline(i) \/ CreateIntent(i) \/ CancelIntent(i)
  \/ \E n \in Renewals : Renew(n) \/ RenewalFails(n)
  \/ \E s \in {"active", "paused", "canceled"} : ChangeSubscription(s)
  \/ CancelPlan \/ CancelAtStripe \/ RequestCrash
  \/ \E r \in Refunds : \/ \E c \in Charges : DashboardRefund(r, c) \/ RefundConfirm(r, c)
                        \/ RefundAtStripe(r) \/ RecordRefund(r)
  \/ \E w \in EventWorkers : \/ HandlerCrash(w)
                             \/ \E e \in Events : ReceiveEvent(w, e) \/ Handle(w, e) \/ RunHook(w, e)
  \/ ReceiptNext /\ UNCHANGED ledgerVars

LedgerSpec == LedgerInit /\ [][LedgerNext]_moneyVars

----------------------------------------------------------------------------
(* Properties.                                                             *)

\* The tables agree with each other and with Stripe, whatever order, copies and
\* lost hooks the events meet: a payment was charged, a completed intent has its
\* payment, a one-time gift or a renewal its donation and no other payment has one,
\* and receipts cover eligible donations.
BooksAgree ==
  /\ payment \subseteq stripe.charged
  /\ \A i \in Intents : intent[i] = "completed" <=> i \in payment
  /\ donation = payment \cap (OneTime \cup Renewals)
  /\ \A c \in Charges : receipt[c].covers \subseteq Eligible \cap donation

\* An event marked processed has left its trace: money it reports is in the
\* books, and a subscription it ends is cancelled whatever is handled later.
ProcessedIsRecorded ==
  /\ \A i \in Intents : event[<<"succeeded", i>>] = "processed" => i \in payment
  /\ \A n \in Renewals : event[<<"paid", n>>] = "processed" /\ plan.status # "none"
                           => n \in payment
  /\ event[<<"deleted", Plan>>] = "processed" => plan.status \in {"none", "cancelled"}

\* Refunds pending and succeeded together never exceed the charge, with several
\* staff requests, failed calls and dashboard refunds of the same charge.
RefundsCovered ==
  \A c \in Charges :
     MapThenSumSet(LAMBDA r : refund[r].amount,
                   {r \in Refunds : refund[r].charge = c /\ refund[r].status # "failed"})
       <= Amount

\* A refund is recorded or confirmed as succeeded only when Stripe made it, of
\* this amount (RefundConfirmView.post, _handle_charge_refunded).
SucceededIsRefunded ==
  \A r \in Refunds :
     /\ refund[r].status = "succeeded" =>
          stripe.of[r] = refund[r].charge /\ stripe.refunded[r] = refund[r].amount
     /\ notice[r] = "confirmed" => refund[r].status = "succeeded"

=============================================================================
