-------------------------- MODULE PaymentLifecycle --------------------------
(***************************************************************************)
(* The provider-neutral life of one PaymentAttempt: the status graph, what *)
(* a provider result is, and how PaymentLifecycleService folds one result  *)
(* (or one local outcome) into the attempt, its append-only                *)
(* ProviderObservation rows and its PaymentReconciliation rows.            *)
(*                                                                         *)
(* Source: apps/payments/govstack_models.py,                               *)
(*         apps/payments/govstack_failure_services.py,                     *)
(*         apps/payments/govstack_provider.py.                             *)
(*                                                                         *)
(* Strings that only need to be told apart from the empty string           *)
(* (tenant_id, amount, provider_attempt_id / external_transaction_id) are  *)
(* Booleans.  A database error or an exception inside a transaction rolls  *)
(* the whole transaction back, so every operator that may raise has a      *)
(* companion predicate saying when it does not.                            *)
(***************************************************************************)
EXTENDS Integers, FiniteSets

CONSTANTS
  Attempts,   \* PaymentAttempt primary keys
  ObsIds,     \* observation / event identities a provider may report
  MaxGen,     \* bound on claim_generation (a PositiveIntegerField in the code)
  None        \* the empty string / NULL

ASSUME MaxGenAssumption == MaxGen \in Nat

(***************************************************************************)
(* Statuses and the transition table.                                      *)
(***************************************************************************)
Status == {"pending", "retryable", "uncertain", "settled", "rejected",
           "review", "dead_letter"}

Final == {"settled", "rejected"}

IsTerminal(s) == s \in Final \cup {"dead_letter"}

\* PaymentAttempt.ALLOWED_TRANSITIONS: retryable -> retryable and
\* uncertain -> retryable are absent, and review only leaves by hand.
ALLOWED_TRANSITIONS ==
  [s \in Status |->
     CASE s = "pending"   -> {"retryable", "uncertain", "settled", "rejected", "review"}
       [] s = "retryable" -> {"pending", "uncertain", "settled", "rejected", "review",
                              "dead_letter"}
       [] s = "uncertain" -> {"uncertain", "settled", "rejected", "review", "dead_letter"}
       [] s = "review"    -> {"pending", "dead_letter"}
       [] OTHER           -> {}]

\* The status under the guard of transition_to and of apply_outcome's early
\* return: a terminal attempt ignores every outcome, any other one must have
\* the transition, or InvalidPaymentTransition is raised.
Applicable(s, target) == IsTerminal(s) \/ target \in ALLOWED_TRANSITIONS[s]

(***************************************************************************)
(* Provider results (external shape: ProviderResult of an adapter).        *)
(*   class    settled | rejected (REJECTED, INVALID_ACCOUNT,               *)
(*            INSUFFICIENT_FUNDS) | ambiguous (TIMEOUT, NETWORK,           *)
(*            UNCERTAIN) | other (DUPLICATE, COMPENSATED)                  *)
(*   id       observation_id or event_id or external_transaction_id or     *)
(*            provider_attempt_id, None when all four are empty            *)
(*   ids      some provider_attempt_id / external_transaction_id present   *)
(***************************************************************************)
ObservationId ==
  ({"provider"} \X ObsIds \X {0}) \cup
  ({"unidentified", "configuration-unavailable"} \X Attempts \X {0}) \cup
  ({"runtime-error"} \X Attempts \X (1 .. MaxGen))

Result == [class: {"settled", "rejected", "ambiguous", "other"},
           verified: BOOLEAN, retryable: BOOLEAN,
           id: ObservationId \cup {None}, ids: BOOLEAN]

(***************************************************************************)
(* record_provider_result: exact-binding, fail-closed interpretation.      *)
(***************************************************************************)
RecordedId(a, r) == IF r.id = None THEN <<"unidentified", a, 0>> ELSE r.id

Verified(r) == r.verified /\ r.id # None

FinalOutcome(r) == IF r.class \in Final THEN r.class ELSE "uncertain"

\* accepted_finality: tenant, amount, currency and binding hash are the
\* attempt's own here, so only verification and a final outcome matter.
AcceptedFinality(r) == Verified(r) /\ r.class \in Final

\* (Mutant.)  Finality is taken from unverified answers.
TrustingTarget(r) == IF r.class \in Final THEN r.class ELSE "uncertain"

Target(r) ==
  IF AcceptedFinality(r) THEN r.class
  ELSE IF r.class = "ambiguous" THEN "uncertain"
  ELSE IF r.retryable THEN "retryable"
  ELSE "review"

\* What an honest adapter may answer when the provider's own state of the
\* payment is x: it never attests, with an identity, a finality that is not
\* there.  Everything unverified is arbitrary; retryable is set only where it
\* is read.
ProviderAnswers(x) ==
  {r \in [class: {"settled", "rejected", "ambiguous", "other"},
          verified: BOOLEAN, retryable: BOOLEAN,
          id: ({"provider"} \X ObsIds \X {0}) \cup {None}, ids: BOOLEAN] :
     /\ r.ids => r.id # None
     /\ r.retryable => Target(r) = "retryable"
     /\ AcceptedFinality(r) => r.class = x}

Observation(a, r, gen) ==
  [attempt |-> a, id |-> RecordedId(a, r), outcome |-> FinalOutcome(r),
   verified |-> Verified(r), accepted |-> AcceptedFinality(r), gen |-> gen]

\* The database accepts the row: amount NOT NULL, (kind, observation_id)
\* unique, one accepted finality per attempt.
Insertable(hasAmount, observations, o) ==
  /\ hasAmount
  /\ \A p \in observations :
        /\ p.id # o.id
        /\ ~(p.attempt = o.attempt /\ p.accepted /\ o.accepted)

\* Neither the insert nor the transition raises.
Recordable(hasAmount, status, observations, a, r) ==
  /\ Insertable(hasAmount, observations, Observation(a, r, 0))
  /\ Applicable(status, Target(r))

(***************************************************************************)
(* reconcile: compare provider and internal status.                        *)
(***************************************************************************)
Reconciliation(a, provider, internal) ==
  [attempt |-> a, provider |-> provider, internal |-> internal,
   status |-> IF provider \in Final /\ provider = internal THEN "matched"
              ELSE IF provider = "unknown" THEN "unknown" ELSE "mismatch"]

ProviderStatus(r) == IF Verified(r) THEN FinalOutcome(r) ELSE "unknown"

(***************************************************************************)
(* materialize_credit_instruction_finality: the finality a batch may use.  *)
(* "review" stands for every non-final projection.                         *)
(***************************************************************************)
MaterializedFinality(a, status, observations, reconciliations) ==
  LET obs  == {o \in observations : o.attempt = a}
      acc  == {o \in obs : o.accepted /\ o.verified /\ o.outcome \in Final}
      recs == {r \in reconciliations : r.attempt = a}
      Projects(f) == /\ Cardinality(acc) = 1
                     /\ obs = acc
                     /\ \A o \in acc : o.outcome = f
                     /\ status = f
                     /\ recs # {}
                     /\ \A r \in recs : /\ r.status = "matched"
                                        /\ r.provider = f
                                        /\ r.internal = f
  IN  IF Projects("settled") THEN "settled"
      ELSE IF Projects("rejected") THEN "rejected"
      ELSE "review"
=============================================================================
