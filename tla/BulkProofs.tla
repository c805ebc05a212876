------------------------------ MODULE BulkProofs ------------------------------
(***************************************************************************)
(* Proofs about BulkBatch for any number of instructions, workers, task    *)
(* messages, lease generations and observations, and about CallbackOutbox, *)
(* which tells the payer of them, for any number of callbacks, workers and *)
(* sweepers and any retry budget.                                          *)
(***************************************************************************)
EXTENDS BulkBatch, CallbackOutbox, FiniteSetTheorems, TLAPS

USE DEF Decidable

----------------------------------------------------------------------------
(* Lemmas on the operators.                                                *)

\* What EvidenceArrives writes has the types of the tables.
LEMMA EvidenceTypes ==
  ASSUME NEW a \in Attempts, NEW r \in Answers(a)
  PROVE  /\ r \in Result
         /\ Target(r) \in Status
         /\ Observation(a, r, 0) \in
              [attempt: Attempts, id: ObservationId,
               outcome: {"settled", "rejected", "uncertain"},
               verified: BOOLEAN, accepted: BOOLEAN, gen: {0}]
         /\ ProviderStatus(r) \in {"settled", "rejected", "uncertain", "unknown"}
<1>1. r \in Result
  BY DEF Answers, ProviderAnswers, Result, ObservationId
<1>2. RecordedId(a, r) \in ObservationId
  BY <1>1 DEF RecordedId, ObservationId, Result
<1>3. FinalOutcome(r) \in {"settled", "rejected", "uncertain"}
  BY <1>1 DEF FinalOutcome, Final, Result
<1>4. Verified(r) \in BOOLEAN /\ AcceptedFinality(r) \in BOOLEAN
  BY <1>1 DEF Verified, AcceptedFinality, Result
<1>5. Target(r) \in Status
  BY <1>1 DEF Target, AcceptedFinality, Final, Status, Result
<1> QED BY <1>1, <1>2, <1>3, <1>4, <1>5 DEF Observation, ProviderStatus

\* A materialized finality is the outcome of an accepted observation.
LEMMA FinalityFromEvidence ==
  ASSUME NEW a, NEW s, MaterializedFinality(a, s, observations, reconciliations) \in Final
  PROVE  \E o \in observations :
            /\ o.attempt = a /\ o.accepted
            /\ o.outcome = MaterializedFinality(a, s, observations, reconciliations)
<1> DEFINE acc == {o \in {p \in observations : p.attempt = a} :
                     o.accepted /\ o.verified /\ o.outcome \in Final}
           f == MaterializedFinality(a, s, observations, reconciliations)
<1>1. Cardinality(acc) = 1 /\ \A o \in acc : o.outcome = f
  BY DEF MaterializedFinality, Final
<1>2. acc # {}
  BY <1>1, FS_EmptySet
<1> QED BY <1>1, <1>2

\* A child's projected status is a status of the policy.
LEMMA ChildrenTypes ==
  ASSUME NEW attempts
  PROVE  Children(attempts) \in
           [Attempts -> {"settled", "rejected", "retryable", "uncertain", "review"}]
BY DEF Children, ChildStatus, Final

\* When every child of a decision is final, each is what the provider says.
LEMMA ChildrenAreTrue ==
  ASSUME EvidenceInv, NEW attempts, NEW a \in Attempts, Children(attempts)[a] \in Final
  PROVE  ext[a] = Children(attempts)[a]
<1> DEFINE f == MaterializedFinality(a, attempts[a], observations, reconciliations)
<1>1. Children(attempts)[a] = f /\ f \in Final
  BY DEF Children, ChildStatus, Final
<1>2. PICK o \in observations : o.attempt = a /\ o.accepted /\ o.outcome = f
  BY <1>1, FinalityFromEvidence
<1> QED BY <1>1, <1>2 DEF EvidenceInv

\* The policy concludes only when every child is final, and is total.
LEMMA ActionFacts ==
  ASSUME NEW items, NEW returnFunds
  PROVE  /\ OutcomeAction(items, returnFunds) \in Action
         /\ OutcomeAction(items, returnFunds) \in Concluding =>
              \A a \in Attempts : items[a] \in Final
<1> DEFINE state == PolicyState(items)
<1> HIDE DEF state
<1>1. OutcomeAction(items, returnFunds) =
        IF Attempts = {} THEN "empty"
        ELSE IF Having(items, Final) # Attempts
          THEN IF state = "paused" THEN "pause"
               ELSE IF state \in {"retryable", "uncertain"} THEN "retry"
               ELSE "review"
        ELSE IF state \notin {"completed", "partial"} THEN "review"
        ELSE IF returnFunds /\ Having(items, {"rejected"}) # {} THEN "return_funds"
        ELSE "terminal"
  BY DEF OutcomeAction, state
<1>2. Having(items, Final) = Attempts => \A a \in Attempts : items[a] \in Final
  BY DEF Having
<1> QED BY <1>1, <1>2 DEF Action, Concluding

LEMMA ProjectionFacts ==
  ASSUME NEW items, NEW action
  PROVE  /\ Projection(items, action) \in BatchStatus
         /\ Projection(items, action) \in Open <=> action \notin Concluding
BY DEF Projection, BatchStatus, Open

----------------------------------------------------------------------------
(* What one Decide step does, with its choices named.                      *)

DecideWith(w, attempts, items, returnFunds) ==
  /\ worker[w].pc = "process" /\ Owns(w) /\ batch.status \in Open
  /\ attempts \in [Attempts -> Status \cup {None}]
  /\ items = Children(attempts) /\ returnFunds \in BOOLEAN
  /\ ~Conflicts(worker[w].gen, items, returnFunds)
  /\ attempt' = attempts
  /\ instruction' = [a \in Attempts |-> InstructionAfter(items[a], instruction[a])]
  /\ batch' = [status    |-> Projection(items, OutcomeAction(items, returnFunds)),
               completed |-> Having(items, {"settled"}),
               failed    |-> Having(items, {"rejected"})]
  /\ \/ /\ \A d \in decisions : ~SameInputs(d, items, returnFunds)
        /\ decisions' = decisions \cup
             {[gen |-> worker[w].gen, items |-> items, returnFunds |-> returnFunds,
               action |-> OutcomeAction(items, returnFunds)]}
        /\ outbox' = outbox \cup {OutcomeAction(items, returnFunds)}
     \/ /\ \E d \in decisions : SameInputs(d, items, returnFunds)
        /\ decisions' = decisions
        /\ outbox' = outbox
  /\ Goto(w, "release")
  /\ UNCHANGED <<lease, copies, ext, observations, reconciliations>>

LEMMA DecideChoices ==
  ASSUME TypeOK, NEW w \in Workers, Decide(w)
  PROVE  \E attempts, items, returnFunds : DecideWith(w, attempts, items, returnFunds)
<1>1. PICK found \in SUBSET Attempts, returnFunds \in BOOLEAN :
        LET attempts == AttemptsAfter(found)
            items    == Children(attempts)
            action   == OutcomeAction(items, returnFunds)
            created  == \A d \in decisions : ~SameInputs(d, items, returnFunds)
        IN  /\ ~Conflicts(worker[w].gen, items, returnFunds)
            /\ attempt' = attempts
            /\ instruction' = [a \in Attempts |-> InstructionAfter(items[a], instruction[a])]
            /\ batch' = [status    |-> Projection(items, action),
                         completed |-> Having(items, {"settled"}),
                         failed    |-> Having(items, {"rejected"})]
            /\ decisions' = IF ~created THEN decisions
                            ELSE decisions \cup {[gen |-> worker[w].gen, items |-> items,
                                                  returnFunds |-> returnFunds,
                                                  action |-> action]}
            /\ outbox' = IF created THEN outbox \cup {action} ELSE outbox
  BY Zenon DEF Decide
<1>2. AttemptsAfter(found) \in [Attempts -> Status \cup {None}]
  BY DEF AttemptsAfter, NewAttempt, Status, TypeOK
<1>3. DecideWith(w, AttemptsAfter(found), Children(AttemptsAfter(found)), returnFunds)
  BY <1>1, <1>2, Zenon DEF Decide, DecideWith
<1> QED BY <1>3
----------------------------------------------------------------------------
(* Type correctness.                                                       *)

LEMMA TypeInit == Init => TypeOK
<1> SUFFICES ASSUME Init PROVE TypeOK OBVIOUS
<1>1. copies \in [Tasks -> Nat] BY MaxCopiesAssumption DEF Init
<1>2. 0 \in 0 .. MaxGen BY MaxGenAssumption
<1>3. worker \in [Workers -> [pc: {"idle", "admit", "process", "release", "ack"},
                              task: Tasks \cup {None}, gen: 0 .. MaxGen]]
      /\ \A w \in Workers : worker[w].pc = "idle"
  BY <1>2 DEF Init, Idle
<1>4. /\ lease \in [owner: Tasks \cup {None}, gen: 0 .. MaxGen, live: BOOLEAN]
      /\ batch \in [status: BatchStatus, completed: SUBSET Attempts, failed: SUBSET Attempts]
      /\ instruction \in [Attempts -> {"pending", "validated", "completed", "failed"}]
      /\ attempt \in [Attempts -> Status \cup {None}]
      /\ lease.live => lease.gen # 0
  BY <1>2 DEF Init, BatchStatus, Open
<1>5. observations = {} /\ reconciliations = {} /\ decisions = {} /\ outbox = {}
      /\ ext \in [Attempts -> Final]
  BY DEF Init
<1> QED BY <1>1, <1>3, <1>4, <1>5 DEF TypeOK

\* Steps of the broker, the lease and the acknowledgement keep the types.
LEMMA TypeControl ==
  ASSUME TypeOK, NEW w \in Workers,
         \/ \E t \in Tasks : Receive(w, t)
         \/ Ack(w) \/ Crash(w) \/ NotAdmitted(w) \/ NotDecided(w) \/ Fails(w)
         \/ Acquire(w) \/ Release(w)
  PROVE  TypeOK'
<1> DEFINE WS == [pc: {"idle", "admit", "process", "release", "ack"},
                  task: Tasks \cup {None}, gen: 0 .. MaxGen]
<1>0. 0 \in 0 .. MaxGen /\ worker \in [Workers -> WS] BY MaxGenAssumption DEF TypeOK
<1>1. CASE \E t \in Tasks : Receive(w, t)
  BY <1>0, <1>1 DEF Receive, TypeOK, evidence, result
<1>2. CASE Ack(w)
  BY <1>0, <1>2 DEF Ack, Idle, TypeOK, evidence, result
<1>3. CASE Crash(w)
  <2>1. copies' \in [Tasks -> Nat] BY <1>3 DEF Crash, TypeOK
  <2> QED BY <1>0, <1>3, <2>1 DEF Crash, Idle, TypeOK, evidence, result
<1>4. CASE NotAdmitted(w) \/ NotDecided(w) \/ Fails(w)
  <2>1. \E pc \in {"release", "ack"} : Goto(w, pc) /\ worker[w].pc # "idle"
    BY <1>4, Zenon DEF NotAdmitted, NotDecided, Fails
  <2>2. UNCHANGED <<lease, copies, ext, evidence, result>>
    BY <1>4, Zenon DEF NotAdmitted, NotDecided, Fails
  <2> QED BY <1>0, <2>1, <2>2 DEF Goto, TypeOK, evidence, result
<1>5. CASE Acquire(w)
  <2>1. AcquiredGeneration \in 0 .. MaxGen /\ AcquiredGeneration # 0
    BY <1>5, MaxGenAssumption DEF Acquire, AcquiredGeneration, TypeOK
  <2>2. worker[w].task \in Tasks BY <1>5 DEF Acquire, TypeOK
  <2> QED BY <1>0, <1>5, <2>1, <2>2 DEF Acquire, TypeOK, evidence, result
<1>6. CASE Release(w)
  <2>1. lease' \in [owner: Tasks \cup {None}, gen: 0 .. MaxGen, live: BOOLEAN]
        /\ (lease.live => lease.gen # 0)'
    BY <1>6 DEF Release, TypeOK
  <2> QED BY <1>0, <1>6, <2>1 DEF Release, Goto, TypeOK, evidence, result
<1> QED BY <1>1, <1>2, <1>3, <1>4, <1>5, <1>6

LEMMA TypeDecide ==
  ASSUME TypeOK, DecisionInv, NEW w \in Workers, Decide(w)
  PROVE  TypeOK'
<1>1. PICK attempts, items, returnFunds : DecideWith(w, attempts, items, returnFunds)
  BY DecideChoices
<1> DEFINE act == OutcomeAction(items, returnFunds)
<1>2. /\ items \in [Attempts -> {"settled", "rejected", "retryable", "uncertain", "review"}]
      /\ returnFunds \in BOOLEAN
      /\ attempt' \in [Attempts -> Status \cup {None}]
  BY <1>1, ChildrenTypes DEF DecideWith
<1>3. act \in Action BY ActionFacts
<1>4. instruction' \in [Attempts -> {"pending", "validated", "completed", "failed"}]
  <2>1. \A a \in Attempts : InstructionAfter(items[a], instruction[a])
                              \in {"pending", "validated", "completed", "failed"}
    BY DEF InstructionAfter, TypeOK
  <2> QED BY <1>1, <2>1 DEF DecideWith
<1>5. batch' \in [status: BatchStatus, completed: SUBSET Attempts, failed: SUBSET Attempts]
  <2>1. Projection(items, act) \in BatchStatus BY ProjectionFacts
  <2>2. Having(items, {"settled"}) \subseteq Attempts /\ Having(items, {"rejected"}) \subseteq Attempts
    BY DEF Having
  <2> QED BY <1>1, <2>1, <2>2 DEF DecideWith
<1>6. worker[w].gen \in 1 .. MaxGen
  BY <1>1, MaxGenAssumption DEF DecideWith, Owns, TypeOK
<1>7. decisions' \subseteq Decision /\ outbox' \subseteq Action
  <2>1. [gen |-> worker[w].gen, items |-> items, returnFunds |-> returnFunds,
         action |-> act] \in Decision
    BY <1>2, <1>3, <1>6 DEF Decision
  <2> HIDE DEF act
  <2>2. decisions \subseteq Decision /\ outbox \subseteq Action BY DEF TypeOK
  <2> QED BY <1>1, <1>3, <2>1, <2>2 DEF DecideWith, act
<1>8. /\ worker' \in [Workers -> [pc: {"idle", "admit", "process", "release", "ack"},
                                  task: Tasks \cup {None}, gen: 0 .. MaxGen]]
      /\ \A v \in Workers : worker'[v].pc # "idle" => worker'[v].task \in Tasks
  BY <1>1 DEF DecideWith, Goto, TypeOK
<1>9. UNCHANGED <<lease, copies, ext, observations, reconciliations>>
  BY <1>1 DEF DecideWith
<1> QED BY <1>2, <1>4, <1>5, <1>7, <1>8, <1>9 DEF TypeOK

LEMMA TypeEvidence ==
  ASSUME TypeOK, NEW a \in Attempts, NEW r \in Answers(a), EvidenceArrives(a, r)
  PROVE  TypeOK'
<1> DEFINE s == IF IsTerminal(attempt[a]) THEN attempt[a] ELSE Target(r)
<1>1. s \in Status
  BY EvidenceTypes DEF EvidenceArrives, TypeOK
<1>2. attempt' \in [Attempts -> Status \cup {None}]
  BY <1>1 DEF EvidenceArrives, TypeOK
<1>3. Reconciliation(a, ProviderStatus(r), s) \in
        [attempt: Attempts, provider: {"settled", "rejected", "uncertain", "unknown"},
         internal: Status, status: {"matched", "unknown", "mismatch"}]
  BY <1>1, EvidenceTypes DEF Reconciliation
<1>4. observations' = observations \cup {Observation(a, r, 0)}
      /\ reconciliations' = reconciliations \cup {Reconciliation(a, ProviderStatus(r), s)}
  BY DEF EvidenceArrives
<1>5. UNCHANGED <<lease, copies, worker, ext, result>> BY DEF EvidenceArrives
<1> HIDE DEF s
<1> QED BY <1>2, <1>3, <1>4, <1>5, EvidenceTypes DEF TypeOK, result

----------------------------------------------------------------------------
(* Invariance.                                                             *)

LEMMA InvInit == Init => IInv
<1> SUFFICES ASSUME Init PROVE IInv OBVIOUS
<1>1. TypeOK BY TypeInit
<1>2. batch.status \in Open /\ observations = {} /\ decisions = {} /\ outbox = {}
  BY DEF Init, Open
<1> QED BY <1>1, <1>2 DEF IInv, EvidenceInv, DecisionInv, TerminalBatchIsTrue,
                          OneDecisionPerGeneration, ConcludesOnce

\* A step that leaves the result and the evidence alone, and does not lower the
\* generation, preserves the invariant.
LEMMA ControlPreserves ==
  ASSUME IInv, TypeOK', UNCHANGED <<ext, evidence, result>>, lease.gen <= lease'.gen
  PROVE  IInv'
<1>1. DecisionInv'
  <2>1. \A d \in decisions : d.gen \in Int /\ d.gen <= lease.gen BY DEF IInv, TypeOK, DecisionInv, Decision
  <2>2. lease.gen \in Int /\ lease'.gen \in Int BY DEF IInv, TypeOK
  <2>3. \A d \in decisions : d.gen <= lease'.gen BY <2>1, <2>2
  <2> QED BY <2>3 DEF IInv, DecisionInv, result, OutcomeAction, PolicyState, Having
<1>2. EvidenceInv' BY DEF IInv, EvidenceInv, evidence
<1>3. TerminalBatchIsTrue' /\ OneDecisionPerGeneration' /\ ConcludesOnce'
  BY DEF IInv, TerminalBatchIsTrue, OneDecisionPerGeneration, ConcludesOnce, result
<1> QED BY <1>1, <1>2, <1>3 DEF IInv

\* Evidence never touches the result, and what it adds is true.
LEMMA EvidencePreserves ==
  ASSUME IInv, NEW a \in Attempts, NEW r \in Answers(a), EvidenceArrives(a, r)
  PROVE  IInv'
<1>1. TypeOK' BY TypeEvidence DEF IInv
<1>2. UNCHANGED <<lease, ext, result>> BY DEF EvidenceArrives
<1>3. EvidenceInv'
  <2> DEFINE o == Observation(a, r, 0)
  <2>1. o.accepted => o.outcome = ext[a]
    BY DEF Observation, Answers, ProviderAnswers, FinalOutcome, AcceptedFinality
  <2>2. observations' = observations \cup {o} /\ o.attempt = a
    BY DEF EvidenceArrives, Observation
  <2> HIDE DEF o
  <2> QED BY <1>2, <2>1, <2>2 DEF IInv, EvidenceInv
<1>4. DecisionInv'
  BY <1>2 DEF IInv, DecisionInv, result, OutcomeAction, PolicyState, Having
<1>5. TerminalBatchIsTrue' /\ OneDecisionPerGeneration' /\ ConcludesOnce'
  BY <1>2 DEF IInv, TerminalBatchIsTrue, OneDecisionPerGeneration, ConcludesOnce, result
<1> QED BY <1>1, <1>3, <1>4, <1>5 DEF IInv

\* The decision: made at most once per generation, concluding at most once, and
\* then from true evidence.
LEMMA DecidePreserves ==
  ASSUME IInv, NEW w \in Workers, Decide(w)
  PROVE  /\ IInv'
         /\ \A d \in decisions' \ decisions :
               /\ lease.live /\ d.gen = lease.gen
               /\ \A e \in decisions : e.gen < d.gen
<1>0. TypeOK' BY TypeDecide DEF IInv
<1>1. PICK attempts, items, rf : DecideWith(w, attempts, items, rf)
  BY DecideChoices DEF IInv
<1> DEFINE act == OutcomeAction(items, rf)
           new == [gen |-> worker[w].gen, items |-> items, returnFunds |-> rf, action |-> act]
           created == \A d \in decisions : ~SameInputs(d, items, rf)
<1>2. /\ new.gen = worker[w].gen /\ new.items = items /\ new.returnFunds = rf
      /\ new.action = act
  OBVIOUS
<1>3. /\ lease' = lease /\ ext' = ext /\ observations' = observations
      /\ batch.status \in Open
      /\ lease.live /\ lease.gen = worker[w].gen
      /\ batch'.status = Projection(items, act)
      /\ batch'.completed = Having(items, {"settled"})
      /\ batch'.failed = Having(items, {"rejected"})
      /\ \A d \in decisions : d.gen = lease.gen => SameInputs(d, items, rf)
  BY <1>1 DEF DecideWith, Owns, Conflicts
<1>4. \/ created /\ decisions' = decisions \cup {new} /\ outbox' = outbox \cup {act}
      \/ ~created /\ decisions' = decisions /\ outbox' = outbox
  BY <1>1 DEF DecideWith
<1> HIDE DEF new, act
<1>5. created => \A e \in decisions : e.gen < lease.gen
  <2>1. \A e \in decisions : e.gen <= lease.gen /\ e.gen \in Int /\ lease.gen \in Int
    BY DEF IInv, DecisionInv, TypeOK, Decision
  <2>2. created => \A e \in decisions : e.gen # lease.gen
    BY <1>3
  <2> HIDE DEF created
  <2> QED BY <2>1, <2>2
<1>6. \A d \in decisions' \ decisions :
        d.gen = lease.gen /\ \A e \in decisions : e.gen < d.gen
  BY <1>2, <1>3, <1>4, <1>5
<1>7. EvidenceInv' BY <1>3 DEF IInv, EvidenceInv
<1>8. DecisionInv'
  <2>1. lease.gen <= lease.gen BY DEF IInv, TypeOK
  <2>2. \A d \in decisions' : d.action = OutcomeAction(d.items, d.returnFunds) /\ d.gen <= lease.gen
    BY <1>2, <1>3, <1>4, <2>1 DEF IInv, DecisionInv, act
  <2> QED BY <1>3, <2>2 DEF DecisionInv, OutcomeAction, PolicyState, Having
<1>9. OneDecisionPerGeneration'
  <2>1. created => \A e \in decisions : e.gen # new.gen
    <3>1. \A e \in decisions : e.gen \in Int BY DEF IInv, TypeOK, Decision
    <3>2. lease.gen \in Int /\ new.gen = lease.gen BY <1>2, <1>3 DEF IInv, TypeOK
    <3> HIDE DEF created
    <3> QED BY <1>5, <3>1, <3>2
  <2> HIDE DEF created
  <2> QED BY <1>4, <2>1 DEF IInv, OneDecisionPerGeneration
<1>10. batch'.status \in Open <=> act \notin Concluding
  BY <1>3, ProjectionFacts
<1>11. act \in Concluding => \A a \in Attempts : items[a] \in Final /\ ext[a] = items[a]
  <2>1. act \in Concluding => \A a \in Attempts : items[a] \in Final
    BY ActionFacts DEF act
  <2>2. items = Children(attempts) BY <1>1 DEF DecideWith
  <2> QED BY <2>1, <2>2, ChildrenAreTrue DEF IInv
<1>12. TerminalBatchIsTrue'
  <2> SUFFICES ASSUME batch'.status \notin Open
               PROVE  /\ batch'.completed = {a \in Attempts : ext[a] = "settled"}
                      /\ batch'.failed = {a \in Attempts : ext[a] = "rejected"}
                      /\ batch'.status = IF batch'.failed = {} THEN "completed"
                                         ELSE IF batch'.completed = {} THEN "failed" ELSE "partial"
    BY <1>3 DEF TerminalBatchIsTrue
  <2>1. act \in Concluding BY <1>10
  <2>2. \A a \in Attempts : ext[a] = items[a] BY <1>11, <2>1
  <2>3. Having(items, {"settled"}) = {a \in Attempts : ext[a] = "settled"}
        /\ Having(items, {"rejected"}) = {a \in Attempts : ext[a] = "rejected"}
    BY <2>2 DEF Having
  <2>4. batch'.status = IF batch'.failed = {} THEN "completed"
                        ELSE IF batch'.completed = {} THEN "failed" ELSE "partial"
    BY <1>3, <2>1 DEF Projection
  <2> QED BY <1>3, <2>3, <2>4
<1>13. ConcludesOnce'
  <2> DEFINE con(S) == {d \in S : d.action \in Concluding}
  <2>1. con(decisions) = {} /\ outbox \cap Concluding = {}
    BY <1>3 DEF IInv, ConcludesOnce
  <2>2. CASE act \notin Concluding
    <3>1. con(decisions') = {} /\ outbox' \cap Concluding = {}
      BY <1>2, <1>4, <2>1, <2>2
    <3> QED BY <1>10, <2>2, <3>1 DEF ConcludesOnce
  <2>3. CASE act \in Concluding
    <3>1. created
      <4>1. ASSUME NEW d \in decisions, SameInputs(d, items, rf) PROVE FALSE
        <5>1. d.action = act BY <4>1 DEF IInv, DecisionInv, SameInputs, act
        <5> QED BY <2>1, <2>3, <5>1
      <4> QED BY <4>1
    <3>2. con(decisions') = {new} /\ outbox' \cap Concluding = {act}
      BY <1>2, <1>4, <2>1, <2>3, <3>1
    <3>3. {d.action : d \in con(decisions')} = {act}
      BY <1>2, <3>2
    <3> HIDE DEF con
    <3>4. /\ con(decisions') = {} <=> batch'.status \in Open
          /\ \A d, e \in con(decisions') : d = e
          /\ outbox' \cap Concluding = {d.action : d \in con(decisions')}
      BY <1>10, <2>3, <3>2, <3>3
    <3> QED BY <3>4 DEF ConcludesOnce, con
  <2> QED BY <2>2, <2>3
<1> QED BY <1>0, <1>3, <1>6, <1>7, <1>8, <1>9, <1>12, <1>13 DEF IInv

LEMMA ControlSteps ==
  ASSUME TypeOK, NEW w \in Workers,
         \/ \E t \in Tasks : Receive(w, t)
         \/ Ack(w) \/ Crash(w) \/ NotAdmitted(w) \/ NotDecided(w) \/ Fails(w)
         \/ Acquire(w) \/ Release(w)
  PROVE  UNCHANGED <<ext, evidence, result>> /\ lease.gen <= lease'.gen
<1>1. UNCHANGED <<ext, evidence, result>>
  BY Zenon DEF Receive, Ack, Crash, NotAdmitted, NotDecided, Fails, Acquire, Release
<1>2. lease.gen \in Int BY DEF TypeOK
<1>3. CASE UNCHANGED lease BY <1>1, <1>2, <1>3
<1>4. CASE Acquire(w) BY <1>1, <1>2, <1>4 DEF Acquire, AcquiredGeneration
<1>5. CASE Release(w)
  <2>1. lease'.gen = lease.gen BY <1>5 DEF Release, TypeOK
  <2> QED BY <1>1, <1>2, <2>1
<1>6. Acquire(w) \/ Release(w) \/ UNCHANGED lease
  BY Zenon DEF Receive, Ack, Crash, NotAdmitted, NotDecided, Fails
<1> QED BY <1>1, <1>3, <1>4, <1>5, <1>6

LEMMA ExpiryPreserves == IInv /\ LeaseExpires => IInv'
<1> SUFFICES ASSUME IInv, LeaseExpires PROVE IInv' OBVIOUS
<1>0. lease \in [owner: Tasks \cup {None}, gen: 0 .. MaxGen, live: BOOLEAN]
      /\ lease' = [lease EXCEPT !.live = FALSE]
  BY DEF LeaseExpires, IInv, TypeOK
<1>1. lease'.gen = lease.gen /\ lease.gen <= lease'.gen
      /\ lease' \in [owner: Tasks \cup {None}, gen: 0 .. MaxGen, live: BOOLEAN]
      /\ ~lease'.live
  <2>1. lease'.gen = lease.gen /\ lease'.live = FALSE
        /\ lease' \in [owner: Tasks \cup {None}, gen: 0 .. MaxGen, live: BOOLEAN]
    BY <1>0
  <2>2. lease.gen \in Int BY <1>0
  <2> QED BY <2>1, <2>2
<1>2. UNCHANGED <<copies, worker, ext, evidence, result>> BY DEF LeaseExpires
<1>3. TypeOK' BY <1>1, <1>2 DEF IInv, TypeOK, evidence, result
<1> QED BY <1>1, <1>2, <1>3, ControlPreserves

\* Which step of Next is being taken.
LEMMA Steps ==
  ASSUME Next
  PROVE  \/ \E w \in Workers : Decide(w)
         \/ \E a \in Attempts : \E r \in Answers(a) : EvidenceArrives(a, r)
         \/ LeaseExpires
         \/ \E w \in Workers :
              \/ \E t \in Tasks : Receive(w, t)
              \/ Ack(w) \/ Crash(w) \/ NotAdmitted(w) \/ NotDecided(w) \/ Fails(w)
              \/ Acquire(w) \/ Release(w)
BY Zenon DEF Next, WorkerStep

LEMMA InvStep == IInv /\ [Next]_vars => IInv'
<1> SUFFICES ASSUME IInv, [Next]_vars PROVE IInv' OBVIOUS
<1>1. CASE UNCHANGED vars
  <2>1. TypeOK' BY <1>1 DEF IInv, TypeOK, vars, evidence, result
  <2>2. lease.gen <= lease'.gen BY <1>1 DEF IInv, TypeOK, vars
  <2> QED BY <1>1, <2>1, <2>2, ControlPreserves DEF vars, evidence, result
<1>2. ASSUME NEW w \in Workers, Decide(w) PROVE IInv'
  BY <1>2, DecidePreserves
<1>3. ASSUME NEW a \in Attempts, NEW r \in Answers(a), EvidenceArrives(a, r) PROVE IInv'
  BY <1>3, EvidencePreserves
<1>4. ASSUME NEW w \in Workers,
             \/ \E t \in Tasks : Receive(w, t)
             \/ Ack(w) \/ Crash(w) \/ NotAdmitted(w) \/ NotDecided(w) \/ Fails(w)
             \/ Acquire(w) \/ Release(w)
      PROVE  IInv'
  <2>1. TypeOK' BY <1>4, TypeControl DEF IInv
  <2>2. UNCHANGED <<ext, evidence, result>> /\ lease.gen <= lease'.gen
    BY <1>4, ControlSteps DEF IInv
  <2> QED BY <2>1, <2>2, ControlPreserves
<1> QED BY <1>1, <1>2, <1>3, <1>4, Steps, ExpiryPreserves

----------------------------------------------------------------------------
(* The theorems.                                                           *)

\* The inductive invariant of the batch holds in every reachable state.
THEOREM Invariance == Spec => []IInv
BY InvInit, InvStep, PTL DEF Spec

\* The batch's tables and workers keep their types.
THEOREM TypeCorrect == Spec => []TypeOK
BY Invariance, PTL DEF IInv

\* A final batch result agrees with the provider's books, child by child
\* (process_bulk_payment_batch, materialize_credit_instruction_finality).
THEOREM TerminalTrue == Spec => []TerminalBatchIsTrue
BY Invariance, PTL DEF IInv

\* One lease generation makes one decision (BatchDecisionService.decide).
THEOREM DecisionOnce == Spec => []OneDecisionPerGeneration
BY Invariance, PTL DEF IInv

\* A batch concludes once, with one concluding decision and one conclusion in
\* the callback outbox.
THEOREM Conclusion == Spec => []ConcludesOnce
BY Invariance, PTL DEF IInv

LEMMA QuietOutside ==
  ASSUME IInv, [Next]_vars
  PROVE  UNCHANGED result \/ \E w \in Workers : Decide(w)
<1>1. CASE UNCHANGED vars BY <1>1 DEF vars, result
<1>2. CASE Next
  BY <1>2, Steps, ControlSteps DEF IInv, EvidenceArrives, LeaseExpires
<1> QED BY <1>1, <1>2

\* Only the owner of the live lease decides, in generation order
\* (assert_current_owner).
THEOREM LeaseOrder == Spec => DecisionsInLeaseOrder
<1>1. IInv /\ [Next]_vars =>
        [\A d \in decisions' \ decisions :
           /\ lease.live /\ d.gen = lease.gen
           /\ \A e \in decisions : e.gen < d.gen]_vars
  BY QuietOutside, DecidePreserves DEF result
<1> QED BY <1>1, Invariance, PTL DEF Spec, DecisionsInLeaseOrder

\* A final result is never touched again (the status guards of both
\* transactions).
THEOREM Frozen == Spec => ResultIsFrozen
<1>1. IInv /\ [Next]_vars => [batch.status \notin Open => UNCHANGED result]_vars
  BY QuietOutside DEF Decide
<1> QED BY <1>1, Invariance, PTL DEF Spec, ResultIsFrozen

----------------------------------------------------------------------------
(* The batch keeps the promise of BatchPromise.                            *)

LEMMA PromiseInit == Init => Promise!Init
BY DEF Init, Promise!Init, Promise!NoOutcome, Outcome, Open, Final

\* A decision taken without conclusion postpones, one with it concludes, one seen
\* before changes nothing.
LEMMA DecideKeepsPromise ==
  ASSUME IInv, IInv', NEW w \in Workers, Decide(w)
  PROVE  [Promise!Next]_(Promise!vars)
<1>1. PICK attempts, items, rf : DecideWith(w, attempts, items, rf)
  BY DecideChoices DEF IInv
<1> DEFINE act == OutcomeAction(items, rf)
           new == [gen |-> worker[w].gen, items |-> items, returnFunds |-> rf, action |-> act]
           con(S) == {d \in S : d.action \in Concluding}
<1>2. /\ new.gen = worker[w].gen /\ new.action = act
      /\ batch.status \in Open /\ ext' = ext /\ worker[w].gen = lease.gen
      /\ batch'.failed = Having(items, {"rejected"})
      /\ \/ /\ decisions' = decisions \cup {new} /\ outbox' = outbox \cup {act}
            /\ \A d \in decisions : ~SameInputs(d, items, rf)
         \/ decisions' = decisions /\ outbox' = outbox
  BY <1>1 DEF DecideWith, Owns
<1>3. new.items = items /\ new.returnFunds = rf OBVIOUS
<1>4. act = "return_funds" => Having(items, {"rejected"}) # {}
  BY DEF OutcomeAction
<1> HIDE DEF new, act
<1>5. con(decisions) = {} /\ outbox \cap Concluding = {}
  BY <1>2 DEF IInv, ConcludesOnce
<1>6. con(decisions') = {} <=> batch'.status \in Open
  BY DEF IInv, ConcludesOnce
<1>7. Outcome = Promise!NoOutcome BY <1>2 DEF Outcome, Promise!NoOutcome
<1>8. CASE decisions' = decisions /\ outbox' = outbox
  <2>1. batch'.status \in Open BY <1>5, <1>6, <1>8
  <2>2. Outcome' = Outcome BY <1>2, <2>1 DEF Outcome
  <2> QED BY <1>2, <1>8, <2>2 DEF Promise!vars
<1>9. CASE /\ decisions' = decisions \cup {new} /\ outbox' = outbox \cup {act}
           /\ \A d \in decisions : ~SameInputs(d, items, rf)
  <2>1. new \in decisions' \ decisions
    BY <1>3, <1>9 DEF SameInputs
  <2>2. Promise!TakeTerm
    <3>1. new.gen \in 1 .. MaxGen BY <2>1 DEF IInv, TypeOK, Decision
    <3>2. \A d \in decisions : d.gen < new.gen BY <2>1, DecidePreserves
    <3>3. \A m \in {d.gen : d \in decisions} : m < new.gen BY <3>2
    <3>4. {d.gen : d \in decisions'} = {d.gen : d \in decisions} \cup {new.gen} BY <1>9
    <3> QED BY <3>1, <3>3, <3>4 DEF Promise!TakeTerm
  <2>3. CASE act \notin Concluding
    <3>1. con(decisions') = {} BY <1>2, <1>5, <1>9, <2>3
    <3>2. batch'.status \in Open BY <1>6, <3>1
    <3>3. Outcome' = Outcome BY <1>2, <3>2 DEF Outcome
    <3>4. outbox' \cap Concluding = outbox \cap Concluding BY <1>9, <2>3
    <3>5. Promise!Postpone BY <1>2, <1>7, <2>2, <3>3, <3>4 DEF Promise!Postpone
    <3> QED BY <3>5 DEF Promise!Next
  <2>4. CASE act \in Concluding
    <3>1. con(decisions') # {} BY <1>2, <1>9, <2>4
    <3>2. batch'.status \notin Open BY <1>6, <3>1
    <3>3. /\ batch'.completed = {a \in Attempts : ext[a] = "settled"}
          /\ batch'.failed = {a \in Attempts : ext[a] = "rejected"}
          /\ batch'.status = IF batch'.failed = {} THEN "completed"
                             ELSE IF batch'.completed = {} THEN "failed" ELSE "partial"
      BY <1>2, <3>2 DEF IInv, TerminalBatchIsTrue
    <3>4. batch' = [status |-> batch'.status, completed |-> batch'.completed,
                    failed |-> batch'.failed]
      BY DEF IInv, TypeOK
    <3>5. Outcome' = Promise!Truth
      BY <3>2, <3>3, <3>4 DEF Outcome, Promise!Truth, Promise!With
    <3>6. outbox' \cap Concluding = {act} BY <1>5, <1>9, <2>4
    <3>7. act = "terminal" \/ (act = "return_funds" /\ Promise!With("rejected") # {})
      BY <1>2, <1>4, <2>4, <3>3 DEF Concluding, Promise!With
    <3>8. Promise!Conclude BY <1>2, <1>7, <2>2, <3>5, <3>6, <3>7 DEF Promise!Conclude
    <3> QED BY <3>8 DEF Promise!Next
  <2> QED BY <2>3, <2>4
<1> QED BY <1>2, <1>8, <1>9

LEMMA PromiseStep ==
  ASSUME IInv, IInv', [Next]_vars PROVE [Promise!Next]_(Promise!vars)
<1>1. CASE UNCHANGED <<ext, result>> BY <1>1 DEF result, Outcome, Promise!vars
<1>2. ext' = ext
  <2>1. CASE UNCHANGED vars BY <2>1 DEF vars
  <2>2. CASE Next
    BY <2>2, Steps, ControlSteps DEF IInv, Decide, EvidenceArrives, LeaseExpires
  <2> QED BY <2>1, <2>2
<1> QED BY <1>1, <1>2, QuietOutside, DecideKeepsPromise

\* The processing of a batch implements BatchPromise: whatever tasks, takeovers and
\* late evidence do underneath, decisions follow each other in lease order and the
\* batch has at most one conclusion, which is the provider's, told once and never
\* revised (process_bulk_payment_batch, BatchDecisionService.decide).
THEOREM BatchRefinement == Spec => KeepsPromise
<1>1. IInv /\ IInv' /\ [Next]_vars => [Promise!Next]_(Promise!vars)
  BY PromiseStep
<1>2. Spec => Promise!Init /\ [][Promise!Next]_(Promise!vars)
  BY <1>1, PromiseInit, Invariance, PTL DEF Spec
<1> QED BY <1>2 DEF KeepsPromise, Promise!Spec

----------------------------------------------------------------------------
(* The callback outbox.                                                    *)

HIDE DEF Decidable
USE DEF Processes, Waiting, Settled, Due

ProcessState == [pc: {"idle", "validate", "queue", "post", "record", "next"},
                 item: Callbacks \cup {NoCallback}, ok: BOOLEAN, todo: SUBSET Callbacks]

DeliveryState == [status: {"none"} \cup Waiting \cup Settled,
                  count: 0 .. MAX_CALLBACK_ATTEMPTS]

\* record_callback_result counts one result, keeps settled rows, and spends the
\* retry budget exactly.
LEMMA RecordedFacts ==
  ASSUME NEW d \in DeliveryState, NEW ok \in BOOLEAN, d.status # "none",
         d.status \in {"none", "pending"} <=> d.count = 0,
         d.status = "retry" => d.count < MAX_CALLBACK_ATTEMPTS,
         d.status = "dead" => d.count = MAX_CALLBACK_ATTEMPTS
  PROVE  /\ Recorded(d, ok) \in DeliveryState
         /\ Recorded(d, ok).status \in {"none", "pending"} <=> Recorded(d, ok).count = 0
         /\ Recorded(d, ok).status = "retry" => Recorded(d, ok).count < MAX_CALLBACK_ATTEMPTS
         /\ Recorded(d, ok).status = "dead" => Recorded(d, ok).count = MAX_CALLBACK_ATTEMPTS
         /\ Recorded(d, ok).status # "none"
         /\ Recorded(d, ok).status = "delivered" => ok \/ d.status = "delivered"
         /\ d.status \in Settled => Recorded(d, ok) = d
         /\ Recorded(d, ok).count \in {d.count, d.count + 1}
<1>1. CASE d.status \in Settled BY <1>1 DEF Recorded
<1>2. CASE d.status \notin Settled
  <2> DEFINE e == Recorded(d, ok)
             full == d.count + 1 >= MAX_CALLBACK_ATTEMPTS
  <2>1. d.count \in 0 .. MAX_CALLBACK_ATTEMPTS /\ d.status \in Waiting
    BY <1>2 DEF DeliveryState
  <2>2. d.count < MAX_CALLBACK_ATTEMPTS
    BY <2>1, MaxAttemptsAssumption
  <2>3. /\ d.count + 1 \in 0 .. MAX_CALLBACK_ATTEMPTS /\ d.count + 1 # 0
        /\ full => d.count + 1 = MAX_CALLBACK_ATTEMPTS
        /\ ~full => d.count + 1 < MAX_CALLBACK_ATTEMPTS
    BY <2>1, <2>2, MaxAttemptsAssumption
  <2>4. e = [status |-> IF ok THEN "delivered" ELSE IF full THEN "dead" ELSE "retry",
             count |-> d.count + 1]
    BY <1>2 DEF Recorded
  <2>5. e.count = d.count + 1
        /\ e.status = (IF ok THEN "delivered" ELSE IF full THEN "dead" ELSE "retry")
    BY <2>4
  <2>6. e \in DeliveryState BY <2>3, <2>4 DEF DeliveryState
  <2> HIDE DEF e, full
  <2>7. /\ e.status \in {"none", "pending"} <=> e.count = 0
        /\ e.status = "retry" => e.count < MAX_CALLBACK_ATTEMPTS
        /\ e.status = "dead" => e.count = MAX_CALLBACK_ATTEMPTS
        /\ e.status # "none"
        /\ e.status = "delivered" => ok
    BY <2>3, <2>5
  <2> QED BY <1>2, <2>5, <2>6, <2>7 DEF e
<1> QED BY <1>1, <1>2

LEMMA OutboxInvInit == OutboxInit => OutboxInv
<1> SUFFICES ASSUME OutboxInit PROVE OutboxInv OBVIOUS
<1>1. \A x \in Processes : process[x] = OutboxIdle BY DEF OutboxInit
<1>2. process \in [Processes -> ProcessState] BY DEF OutboxInit, OutboxIdle, ProcessState
<1>3. \A c \in Callbacks : delivery[c] \in {NoDelivery, Queued} BY DEF OutboxInit
<1>4. delivery \in [Callbacks -> DeliveryState]
  BY MaxAttemptsAssumption DEF OutboxInit, NoDelivery, Queued, DeliveryState
<1>5. OutboxTypes
  BY <1>1, <1>2, <1>4 DEF OutboxInit, OutboxTypes, OutboxIdle, ProcessState, DeliveryState
<1>6. DeliveredIsReceived /\ BudgetIsExact
  BY <1>3, MaxAttemptsAssumption DEF DeliveredIsReceived, BudgetIsExact, NoDelivery, Queued
<1>7. PostInv BY <1>1 DEF PostInv, OutboxIdle
<1> QED BY <1>5, <1>6, <1>7 DEF OutboxInv

\* A step that changes neither a delivery nor what was received, and gives a
\* process only rows that exist, preserves the invariant.
LEMMA QuietPreserves ==
  ASSUME OutboxInv, OutboxTypes', UNCHANGED <<delivery, received>>,
         NEW x \in Processes, NEW p, process' = [process EXCEPT ![x] = p],
         p.pc # "record",
         p.pc = "post" => delivery[p.item].status # "none",
         \A c \in p.todo : delivery[c].status # "none"
  PROVE  OutboxInv'
<1>1. \A y \in Processes : process'[y] = IF y = x THEN p ELSE process[y]
  BY DEF OutboxInv, OutboxTypes
<1>2. PostInv' BY <1>1 DEF OutboxInv, PostInv
<1> QED BY <1>2 DEF OutboxInv, DeliveredIsReceived, BudgetIsExact

LEMMA ReceiveStep ==
  ASSUME OutboxInv, NEW w \in CallbackWorkers, NEW c \in Callbacks, ReceiveValidation(w, c) PROVE OutboxInv'
<1> DEFINE p == [OutboxIdle EXCEPT !.pc = "validate", !.item = c]
<1>1. p \in ProcessState /\ p.pc = "validate" /\ p.todo = {} /\ p.item = c
  BY DEF OutboxIdle, ProcessState
<1>2. process' = [process EXCEPT ![w] = p] BY DEF ReceiveValidation, Become
<1> HIDE DEF p
<1>3. OutboxTypes' BY <1>1, <1>2 DEF OutboxInv, OutboxTypes, ReceiveValidation, ProcessState
<1>4. UNCHANGED <<delivery, received>> BY DEF ReceiveValidation
<1> QED BY <1>1, <1>2, <1>3, <1>4, QuietPreserves

LEMMA ValidateStep ==
  ASSUME OutboxInv, NEW w \in CallbackWorkers, NEW c \in Callbacks, Validate(w, c) PROVE OutboxInv'
<1> DEFINE p == IF validation[c] = "pending" THEN [process[w] EXCEPT !.pc = "queue"] ELSE OutboxIdle
<1>1. /\ p \in ProcessState /\ p.pc \in {"queue", "idle"}
      /\ p.todo \subseteq process[w].todo /\ (p.pc = "queue" => p.item = c)
  BY DEF OutboxIdle, ProcessState, OutboxInv, OutboxTypes, Validate, At
<1>2. process' = [process EXCEPT ![w] = p] BY DEF Validate, Become
<1> HIDE DEF p
<1>3. OutboxTypes' BY <1>1, <1>2 DEF OutboxInv, OutboxTypes, Validate, ProcessState
<1>4. UNCHANGED <<delivery, received>> BY DEF Validate
<1>5. \A d \in p.todo : delivery[d].status # "none" BY <1>1 DEF OutboxInv, PostInv
<1> QED BY <1>1, <1>2, <1>3, <1>4, <1>5, QuietPreserves

LEMMA QueueStep ==
  ASSUME OutboxInv, NEW w \in CallbackWorkers, NEW c \in Callbacks, QueueCallback(w, c) PROVE OutboxInv'
<1> DEFINE p == [process[w] EXCEPT !.pc = "post"]
<1>1. p \in ProcessState /\ p.pc = "post" /\ p.todo = process[w].todo /\ p.item = c
  BY DEF ProcessState, OutboxInv, OutboxTypes, QueueCallback, At
<1>2. process' = [process EXCEPT ![w] = p] BY DEF QueueCallback, Become
<1>3. Queued \in DeliveryState /\ Queued.status = "pending" /\ Queued.count = 0
  BY MaxAttemptsAssumption DEF Queued, DeliveryState
<1>4. /\ delivery' \in [Callbacks -> DeliveryState]
      /\ \A d \in Callbacks : delivery'[d] = IF d = c /\ delivery[c].status = "none" THEN Queued
                                             ELSE delivery[d]
  BY <1>3 DEF QueueCallback, OutboxInv, OutboxTypes, DeliveryState
<1>5. UNCHANGED <<validation, messages, scheduled, received>> BY DEF QueueCallback
<1> HIDE DEF p
<1>6. OutboxTypes' BY <1>1, <1>2, <1>4, <1>5 DEF OutboxInv, OutboxTypes, ProcessState, DeliveryState
<1>7. DeliveredIsReceived' /\ BudgetIsExact'
  BY <1>3, <1>4, <1>5, MaxAttemptsAssumption DEF OutboxInv, DeliveredIsReceived, BudgetIsExact
<1>8. PostInv'
  <2>1. \A y \in Processes : process'[y] = IF y = w THEN p ELSE process[y]
    BY <1>2 DEF OutboxInv, OutboxTypes
  <2>2. \A d \in Callbacks : delivery[d].status # "none" => delivery'[d].status # "none"
    BY <1>4
  <2>3. delivery'[c].status # "none" BY <1>3, <1>4
  <2>4. \A y \in Processes : process[y].todo \subseteq Callbacks
        /\ (process[y].pc \in {"post", "record"} => process[y].item \in Callbacks)
    BY DEF OutboxInv, OutboxTypes
  <2> QED BY <1>1, <1>5, <2>1, <2>2, <2>3, <2>4 DEF OutboxInv, PostInv
<1> QED BY <1>6, <1>7, <1>8 DEF OutboxInv

LEMMA PostStep ==
  ASSUME OutboxInv, NEW x \in Processes, NEW c \in Callbacks, PostCallback(x, c) PROVE OutboxInv'
<1>1. PICK answer \in CallbackAnswers :
        /\ received' = [received EXCEPT ![c] = @ \/ answer \in {"2xx", "lost"}]
        /\ Become(x, [process[x] EXCEPT !.pc = "record", !.ok = PostSucceeded(answer)])
  BY DEF PostCallback
<1> DEFINE p == [process[x] EXCEPT !.pc = "record", !.ok = PostSucceeded(answer)]
<1>2. process[x] \in ProcessState /\ process[x].item = c /\ process[x].pc = "post"
  BY DEF PostCallback, At, OutboxInv, OutboxTypes, ProcessState
<1>3. PostSucceeded(answer) \in BOOLEAN BY DEF PostSucceeded
<1>4. /\ p \in ProcessState /\ p.pc = "record" /\ p.item = c /\ p.todo = process[x].todo
      /\ p.ok = PostSucceeded(answer)
  BY <1>2, <1>3 DEF ProcessState
<1>5. process' = [process EXCEPT ![x] = p] BY <1>1 DEF Become
<1>6. UNCHANGED <<validation, delivery, messages, scheduled>> BY DEF PostCallback
<1>7. /\ received' \in [Callbacks -> BOOLEAN]
      /\ \A d \in Callbacks : received[d] => received'[d]
      /\ p.ok => received'[c]
  BY <1>1, <1>4 DEF OutboxInv, OutboxTypes, PostSucceeded
<1> HIDE DEF p
<1>8. OutboxTypes' BY <1>4, <1>5, <1>6, <1>7 DEF OutboxInv, OutboxTypes, ProcessState
<1>9. DeliveredIsReceived' /\ BudgetIsExact'
  BY <1>6, <1>7 DEF OutboxInv, DeliveredIsReceived, BudgetIsExact
<1>10. PostInv'
  <2>1. \A y \in Processes : process'[y] = IF y = x THEN p ELSE process[y]
    BY <1>5 DEF OutboxInv, OutboxTypes
  <2>2. \A y \in Processes : process[y].pc = "record" => process[y].item \in Callbacks
    BY DEF OutboxInv, OutboxTypes
  <2> QED BY <1>2, <1>4, <1>6, <1>7, <2>1, <2>2 DEF OutboxInv, PostInv
<1> QED BY <1>8, <1>9, <1>10 DEF OutboxInv

LEMMA RecordStep ==
  ASSUME OutboxInv, NEW x \in Processes, NEW c \in Callbacks, RecordCallbackResult(x, c)
  PROVE  /\ OutboxInv'
         /\ \A e \in Callbacks : /\ delivery[e].status \in Settled => delivery'[e] = delivery[e]
                                 /\ delivery'[e].count \in {delivery[e].count, delivery[e].count + 1}
<1> DEFINE rest == process[x].todo \ {c}
           p == IF rest = {} THEN OutboxIdle ELSE [OutboxIdle EXCEPT !.pc = "next", !.todo = rest]
           new == Recorded(delivery[c], process[x].ok)
<1>1. /\ process[x] \in ProcessState /\ process[x].item = c /\ process[x].pc = "record"
      /\ delivery[c] \in DeliveryState /\ process[x].ok \in BOOLEAN
  BY DEF RecordCallbackResult, At, OutboxInv, OutboxTypes, ProcessState, DeliveryState
<1>2. /\ new \in DeliveryState
      /\ new.status \in {"none", "pending"} <=> new.count = 0
      /\ new.status = "retry" => new.count < MAX_CALLBACK_ATTEMPTS
      /\ new.status = "dead" => new.count = MAX_CALLBACK_ATTEMPTS
      /\ new.status # "none"
      /\ new.status = "delivered" => process[x].ok \/ delivery[c].status = "delivered"
      /\ delivery[c].status \in Settled => new = delivery[c]
      /\ new.count \in {delivery[c].count, delivery[c].count + 1}
  <2>1. delivery[c].status # "none" BY <1>1 DEF OutboxInv, PostInv
  <2>2. /\ delivery[c].status \in {"none", "pending"} <=> delivery[c].count = 0
        /\ delivery[c].status = "retry" => delivery[c].count < MAX_CALLBACK_ATTEMPTS
        /\ delivery[c].status = "dead" => delivery[c].count = MAX_CALLBACK_ATTEMPTS
    BY DEF OutboxInv, BudgetIsExact
  <2> QED BY <1>1, <2>1, <2>2, RecordedFacts
<1>3. p \in ProcessState /\ p.pc \in {"idle", "next"} /\ p.todo \subseteq process[x].todo
      /\ (x \in CallbackWorkers => p.pc = "idle")
  <2>1. rest \subseteq Callbacks BY <1>1 DEF ProcessState
  <2>2. p.pc = "next" => p.todo = rest BY DEF OutboxIdle
  <2>3. p.pc = "idle" => p.todo = {} BY DEF OutboxIdle
  <2>4. p \in ProcessState /\ p.pc \in {"idle", "next"} BY <2>1 DEF ProcessState, OutboxIdle
  <2>5. x \in CallbackWorkers => process[x].todo = {} BY DEF OutboxInv, OutboxTypes
  <2>6. rest = {} => p.pc = "idle" BY DEF OutboxIdle
  <2> QED BY <2>2, <2>3, <2>4, <2>5, <2>6
<1>4. process' = [process EXCEPT ![x] = p] BY DEF RecordCallbackResult, Become
<1>5. UNCHANGED <<validation, messages, scheduled, received>> BY DEF RecordCallbackResult
<1>6. delivery' = [delivery EXCEPT ![c] = new] BY DEF RecordCallbackResult
<1> HIDE DEF p, new, rest
<1>7. /\ delivery' \in [Callbacks -> DeliveryState]
      /\ \A d \in Callbacks : delivery'[d] = IF d = c THEN new ELSE delivery[d]
  BY <1>2, <1>6 DEF OutboxInv, OutboxTypes, DeliveryState
<1>8. OutboxTypes' BY <1>3, <1>4, <1>5, <1>7 DEF OutboxInv, OutboxTypes, ProcessState, DeliveryState
<1>9. BudgetIsExact' BY <1>2, <1>7 DEF OutboxInv, BudgetIsExact
<1>10. DeliveredIsReceived'
  <2>1. process[x].ok => received[c] BY <1>1 DEF OutboxInv, PostInv
  <2> QED BY <1>2, <1>5, <1>7, <2>1 DEF OutboxInv, DeliveredIsReceived
<1>11. PostInv'
  <2>1. \A y \in Processes : process'[y] = IF y = x THEN p ELSE process[y]
    BY <1>4 DEF OutboxInv, OutboxTypes
  <2>2. \A d \in Callbacks : delivery[d].status # "none" => delivery'[d].status # "none"
    BY <1>2, <1>7
  <2>3. \A y \in Processes : process[y].todo \subseteq Callbacks
        /\ (process[y].pc \in {"post", "record"} => process[y].item \in Callbacks)
    BY DEF OutboxInv, OutboxTypes
  <2> QED BY <1>3, <1>5, <2>1, <2>2, <2>3 DEF OutboxInv, PostInv
<1>12. \A e \in Callbacks : /\ delivery[e].status \in Settled => delivery'[e] = delivery[e]
                            /\ delivery'[e].count \in {delivery[e].count, delivery[e].count + 1}
  BY <1>2, <1>7
<1> QED BY <1>8, <1>9, <1>10, <1>11, <1>12 DEF OutboxInv

LEMMA SweepSteps ==
  ASSUME OutboxInv, NEW s \in Sweepers,
         \/ \E due \in SUBSET Callbacks : SweepStart(s, due)
         \/ \E c \in Callbacks : SweepNext(s, c)
  PROVE  OutboxInv'
<1>1. ASSUME NEW due \in SUBSET Callbacks, SweepStart(s, due) PROVE OutboxInv'
  <2> DEFINE p == [OutboxIdle EXCEPT !.pc = "next", !.todo = due]
  <2>1. p \in ProcessState /\ p.pc = "next" /\ p.todo = due BY DEF OutboxIdle, ProcessState
  <2>2. process' = [process EXCEPT ![s] = p] BY <1>1 DEF SweepStart, Become
  <2> HIDE DEF p
  <2>3. OutboxTypes' BY <1>1, <2>1, <2>2, DisjointAssumption DEF OutboxInv, OutboxTypes, SweepStart, ProcessState
  <2>4. UNCHANGED <<delivery, received>> BY <1>1 DEF SweepStart
  <2>5. \A c \in p.todo : delivery[c].status # "none" BY <1>1, <2>1 DEF SweepStart
  <2> QED BY <2>1, <2>2, <2>3, <2>4, <2>5, QuietPreserves
<1>2. ASSUME NEW c \in Callbacks, SweepNext(s, c) PROVE OutboxInv'
  <2> DEFINE p == [process[s] EXCEPT !.pc = "post", !.item = c]
  <2>1. p \in ProcessState /\ p.pc = "post" /\ p.item = c /\ p.todo = process[s].todo
    BY <1>2 DEF ProcessState, OutboxInv, OutboxTypes
  <2>2. process' = [process EXCEPT ![s] = p] BY <1>2 DEF SweepNext, Become
  <2> HIDE DEF p
  <2>3. OutboxTypes' BY <1>2, <2>1, <2>2 DEF OutboxInv, OutboxTypes, SweepNext, ProcessState
  <2>4. UNCHANGED <<delivery, received>> BY <1>2 DEF SweepNext
  <2>5. \A d \in process[s].todo : delivery[d].status # "none" BY DEF OutboxInv, PostInv
  <2>6. c \in process[s].todo BY <1>2 DEF SweepNext
  <2> QED BY <2>1, <2>2, <2>3, <2>4, <2>5, <2>6, QuietPreserves
<1> QED BY <1>1, <1>2

LEMMA CrashSteps ==
  ASSUME OutboxInv, NEW x \in Processes,
         (x \in CallbackWorkers /\ WorkerCrash(x)) \/ (x \in Sweepers /\ SweeperCrash(x))
  PROVE  OutboxInv'
<1>1. OutboxIdle \in ProcessState /\ OutboxIdle.pc = "idle" /\ OutboxIdle.todo = {}
  BY DEF OutboxIdle, ProcessState
<1>2. process' = [process EXCEPT ![x] = OutboxIdle] BY DEF WorkerCrash, SweeperCrash, Become
<1>3. UNCHANGED <<validation, delivery, received>> BY DEF WorkerCrash, SweeperCrash
<1>4. messages' \subseteq Callbacks /\ scheduled' \subseteq {RegisteredName, ScheduledName}
  BY DEF WorkerCrash, SweeperCrash, OutboxInv, OutboxTypes
<1>5. OutboxTypes' BY <1>1, <1>2, <1>3, <1>4 DEF OutboxInv, OutboxTypes, ProcessState
<1> QED BY <1>1, <1>2, <1>3, <1>5, QuietPreserves

\* Beat, operator and discarded messages touch the schedule only.
LEMMA ScheduleSteps ==
  ASSUME OutboxInv, BeatTick \/ OperatorSends \/ DiscardUnregistered \/ UNCHANGED outboxVars PROVE OutboxInv'
<1>1. UNCHANGED <<validation, delivery, messages, process, received>>
      /\ scheduled' \subseteq {RegisteredName, ScheduledName}
  BY DEF BeatTick, OperatorSends, DiscardUnregistered, outboxVars, OutboxInv, OutboxTypes
<1> QED BY <1>1 DEF OutboxInv, OutboxTypes, DeliveredIsReceived, BudgetIsExact, PostInv

LEMMA OutboxInvStep == OutboxInv /\ [OutboxNext]_outboxVars => OutboxInv'
<1> SUFFICES ASSUME OutboxInv, [OutboxNext]_outboxVars PROVE OutboxInv' OBVIOUS
<1>1. CASE UNCHANGED outboxVars BY <1>1, ScheduleSteps
<1>2. CASE OutboxNext
  BY <1>2, ReceiveStep, ValidateStep, QueueStep, PostStep, RecordStep, SweepSteps, CrashSteps,
     ScheduleSteps DEF OutboxNext
<1> QED BY <1>1, <1>2

----------------------------------------------------------------------------
\* The inductive invariant of the outbox holds in every reachable state.
THEOREM OutboxInvariance == OutboxSpec => []OutboxInv
BY OutboxInvInit, OutboxInvStep, PTL DEF OutboxSpec

\* The outbox rows, the messages and the workers keep their types.
THEOREM OutboxTypeCorrect == OutboxSpec => []OutboxTypes
BY OutboxInvariance, PTL DEF OutboxInv

\* A delivered callback reached its receiver (_post_callback).
THEOREM DeliveredReceived == OutboxSpec => []DeliveredIsReceived
BY OutboxInvariance, PTL DEF OutboxInv

\* The retry budget is exact for every value of MAX_CALLBACK_ATTEMPTS
\* (record_callback_result).
THEOREM BudgetExact == OutboxSpec => []BudgetIsExact
BY OutboxInvariance, PTL DEF OutboxInv

\* Late results change no settled row.
THEOREM SettledFinal == OutboxSpec => SettledIsFinal
<1>1. ASSUME OutboxInv, [OutboxNext]_outboxVars, NEW c \in Callbacks
      PROVE  /\ delivery[c].status \in Settled => delivery'[c] = delivery[c]
             /\ delivery'[c].count \in {delivery[c].count, delivery[c].count + 1}
  <2>1. CASE UNCHANGED delivery BY <2>1, Zenon
  <2>2. ASSUME NEW w \in CallbackWorkers, NEW d \in Callbacks, QueueCallback(w, d)
        PROVE  /\ delivery[c].status \in Settled => delivery'[c] = delivery[c]
               /\ delivery'[c].count \in {delivery[c].count, delivery[c].count + 1}
    <3>1. CASE delivery[d].status # "none"
      <4>1. delivery' = delivery BY <2>2, <3>1 DEF QueueCallback
      <4> QED BY <4>1, Zenon
    <3>2. CASE delivery[d].status = "none"
      <4>1. delivery' = [delivery EXCEPT ![d] = Queued] BY <2>2, <3>2 DEF QueueCallback
      <4>2. delivery[d].count = 0 /\ Queued.count = 0 BY <1>1, <3>2 DEF OutboxInv, BudgetIsExact, Queued
      <4> QED BY <1>1, <3>2, <4>1, <4>2 DEF OutboxInv, OutboxTypes
    <3> QED BY <3>1, <3>2
  <2>3. ASSUME NEW x \in Processes, NEW d \in Callbacks, RecordCallbackResult(x, d)
        PROVE  /\ delivery[c].status \in Settled => delivery'[c] = delivery[c]
               /\ delivery'[c].count \in {delivery[c].count, delivery[c].count + 1}
    BY <1>1, <2>3, RecordStep
  <2>4. \/ UNCHANGED delivery
        \/ \E w \in CallbackWorkers, d \in Callbacks : QueueCallback(w, d)
        \/ \E x \in Processes, d \in Callbacks : RecordCallbackResult(x, d)
    BY <1>1, Zenon DEF OutboxNext, outboxVars, ReceiveValidation, Validate, PostCallback, SweepStart, SweepNext, BeatTick,
       OperatorSends, DiscardUnregistered, WorkerCrash, SweeperCrash
  <2> QED BY <2>1, <2>2, <2>3, <2>4
<1>2. OutboxInv /\ [OutboxNext]_outboxVars =>
        [\A c \in Callbacks :
            /\ delivery[c].status \in Settled => delivery'[c] = delivery[c]
            /\ delivery'[c].count \in {delivery[c].count, delivery[c].count + 1}]_outboxVars
  BY <1>1
<1> QED BY <1>2, OutboxInvariance, PTL DEF OutboxSpec, SettledIsFinal
=============================================================================
