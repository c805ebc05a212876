------------------------ MODULE ProviderRuntimeProofs ------------------------
(***************************************************************************)
(* Proofs about ProviderRuntime for any number of attempts, workers,       *)
(* sweepers, claims and messages.                                          *)
(***************************************************************************)
EXTENDS ProviderRuntime, TLAPS

USE DEF NextGeneration

----------------------------------------------------------------------------
(* Lemmas on the operators of PaymentLifecycle.                            *)

\* What an adapter may answer, the substituted error included, is a Result.
LEMMA AnswersAreResults ==
  ASSUME NEW a \in Attempts, NEW g \in 1 .. MaxGen, NEW i \in BOOLEAN, NEW x
  PROVE  /\ ProviderAnswers(x) \subseteq Result
         /\ RuntimeError(a, g, i) \in Result
         /\ UnavailableResult(a) \in Result
BY DEF ProviderAnswers, Result, RuntimeError, UnavailableResult, ObservationId

\* Recording a result writes well-typed rows.
LEMMA RecordedTypes ==
  ASSUME NEW a \in Attempts, NEW r \in Result, NEW g \in 0 .. MaxGen
  PROVE  /\ Observation(a, r, g) \in
              [attempt: Attempts, id: ObservationId,
               outcome: {"settled", "rejected", "uncertain"},
               verified: BOOLEAN, accepted: BOOLEAN, gen: 0 .. MaxGen]
         /\ Target(r) \in Status
         /\ ProviderStatus(r) \in {"settled", "rejected", "uncertain", "unknown"}
<1>1. RecordedId(a, r) \in ObservationId
  BY DEF RecordedId, ObservationId, Result
<1>2. FinalOutcome(r) \in {"settled", "rejected", "uncertain"}
  BY DEF FinalOutcome, Final, Result
<1>3. Verified(r) \in BOOLEAN /\ AcceptedFinality(r) \in BOOLEAN
  BY DEF Verified, AcceptedFinality, Result
<1>4. Target(r) \in Status
  BY DEF Target, AcceptedFinality, Final, Status, Result
<1> QED BY <1>1, <1>2, <1>3, <1>4 DEF Observation, ProviderStatus

\* The row after a recorded result: only status and identifiers move.
LEMMA RecordedRowTypes ==
  ASSUME TypeOK, NEW a \in Attempts, NEW r \in Result
  PROVE  /\ RecordedRow(a, r) \in Row
         /\ RecordedRow(a, r).tenant = row[a].tenant
         /\ RecordedRow(a, r).amount = row[a].amount
         /\ RecordedRow(a, r).submitStarted = row[a].submitStarted
         /\ RecordedRow(a, r).generation = row[a].generation
         /\ RecordedRow(a, r).token = row[a].token
         /\ RecordedRow(a, r).status =
              IF IsTerminal(row[a].status) THEN row[a].status ELSE Target(r)
<1>1. row[a] \in Row BY DEF TypeOK
<1>2. Target(r) \in Status BY RecordedTypes, MaxGenAssumption
<1>3. (AcceptedFinality(r) /\ r.ids) \in BOOLEAN OBVIOUS
<1> QED BY <1>1, <1>2, <1>3 DEF RecordedRow, Row

----------------------------------------------------------------------------
(* Type correctness.                                                       *)

LEMMA TypeInit == Init => TypeOK
<1> SUFFICES ASSUME Init PROVE TypeOK OBVIOUS
<1>1. row \in [Attempts -> Row]
  <2>2. 0 \in Token /\ 0 \in 0 .. MaxGen /\ "pending" \in Status
    BY MaxGenAssumption DEF Token, Status
  <2>3. ASSUME NEW o \in Origins PROVE NewRow(o) \in Row
    BY <2>2 DEF Row, Origins, NewRow
  <2> QED BY <2>3 DEF Init
<1>2. messages \in [Attempts -> Nat]
  BY MaxMessagesAssumption DEF Init
<1>3. worker \in [Workers -> WorkerState] /\ \A w \in Workers : worker[w].pc = "idle"
  BY MaxGenAssumption DEF Init, WorkerState, Idle
<1>4. sweep \in [Sweepers -> SweepState]
  BY DEF Init, SweepState, SweepIdle
<1>5. ext \in [Attempts -> {"none", "pending"} \cup Final]
  BY DEF Init
<1>6. submits \in [Attempts -> Nat] BY DEF Init
<1>7. observations = {} /\ reconciliations = {} BY DEF Init
<1> QED BY <1>1, <1>2, <1>3, <1>4, <1>5, <1>6, <1>7 DEF TypeOK

\* Every step keeps the types (each action of submit_or_poll, the finalizers,
\* the sweeps and the broker).
LEMMA TypeStep == TypeOK /\ [Next]_vars => TypeOK'
<1> SUFFICES ASSUME TypeOK, [Next]_vars PROVE TypeOK' OBVIOUS
<1> USE MaxGenAssumption
<1>1. ASSUME NEW w \in Workers, NEW a \in Attempts, Receive(w, a) PROVE TypeOK'
  <2>1. [Idle EXCEPT !.pc = "execute", !.attempt = a] \in WorkerState
    <3>1. Idle \in WorkerState BY DEF Idle, WorkerState
    <3> QED BY <3>1 DEF WorkerState
  <2>2. messages' \in [Attempts -> Nat]
    BY <1>1 DEF TypeOK, Receive
  <2> QED BY <1>1, <2>1, <2>2 DEF TypeOK, Receive, Idle
<1>2. ASSUME NEW w \in Workers, Ack(w) PROVE TypeOK'
  BY <1>2 DEF TypeOK, Ack, WorkerState, Idle
<1>3. ASSUME NEW w \in Workers, Crash(w) PROVE TypeOK'
  BY <1>3 DEF TypeOK, Crash, WorkerState, Idle
<1>4. ASSUME NEW w \in Workers, Execute(w) PROVE TypeOK'
  BY <1>4 DEF TypeOK, Execute, Goto, WorkerState
<1>5. ASSUME NEW w \in Workers, StatusFirst(w) PROVE TypeOK'
  <2>1. worker[w].attempt \in Attempts /\ "uncertain" \in Status
    BY <1>5 DEF TypeOK, StatusFirst, Status
  <2>2. row' \in [Attempts -> Row]
    BY <1>5, <2>1 DEF TypeOK, StatusFirst, Row
  <2> QED BY <1>5, <2>2 DEF TypeOK, StatusFirst, Goto, WorkerState
<1>6. ASSUME NEW w \in Workers, ClaimRefused(w) \/ ClaimUnresolved(w) PROVE TypeOK'
  BY <1>6 DEF TypeOK, ClaimRefused, ClaimUnresolved, Goto, WorkerState
<1>7. ASSUME NEW w \in Workers, ClaimGranted(w) PROVE TypeOK'
  <2> DEFINE a == worker[w].attempt
             g == row[a].generation + 1
  <2>1. a \in Attempts /\ row[a] \in Row /\ worker[w] \in WorkerState
    BY <1>7 DEF TypeOK, ClaimGranted
  <2>2. g \in 1 .. MaxGen /\ g \in 0 .. MaxGen /\ g \in Token
    BY <1>7, <2>1 DEF ClaimGranted, Row, Token
  <2>3. ShouldPoll(row[a]) \in BOOLEAN /\ (row[a].submitStarted \/ ~ShouldPoll(row[a])) \in BOOLEAN
    BY <2>1 DEF ShouldPoll, Row
  <2>4. ClaimedRow(row[a], g) \in Row
    BY <2>1, <2>2, <2>3 DEF Row, ClaimedRow
  <2>5. [worker[w] EXCEPT !.pc = "call", !.gen = g, !.ids = row[a].ids,
                          !.poll = ShouldPoll(row[a])] \in WorkerState
    BY <2>1, <2>2, <2>3 DEF Row, WorkerState
  <2>6. row' \in [Attempts -> Row]
    BY <1>7, <2>1, <2>4 DEF TypeOK, ClaimGranted
  <2> HIDE DEF g
  <2>7. /\ worker' \in [Workers -> WorkerState]
        /\ \A v \in Workers :
             /\ worker'[v].pc # "idle" => worker'[v].attempt \in Attempts
             /\ worker'[v].pc \in {"call", "finalize"} => worker'[v].gen \in 1 .. MaxGen
             /\ worker'[v].pc = "finalize" => worker'[v].result \in Result
    BY <1>7, <2>1, <2>2, <2>5 DEF TypeOK, ClaimGranted, WorkerState, g
  <2> QED BY <1>7, <2>6, <2>7 DEF TypeOK, ClaimGranted
<1>8. ASSUME NEW w \in Workers, Submit(w) \/ Poll(w) PROVE TypeOK'
  <2>1. worker[w] \in WorkerState /\ worker[w].attempt \in Attempts
        /\ worker[w].gen \in 1 .. MaxGen /\ worker[w].ids \in BOOLEAN
    BY <1>8 DEF TypeOK, Submit, Poll, WorkerState
  <2>2. ASSUME NEW x, Returned(w, x)
        PROVE  /\ worker' \in [Workers -> WorkerState]
               /\ \A v \in Workers :
                    /\ worker'[v].pc # "idle" => worker'[v].attempt \in Attempts
                    /\ worker'[v].pc \in {"call", "finalize"} => worker'[v].gen \in 1 .. MaxGen
                    /\ worker'[v].pc = "finalize" => worker'[v].result \in Result
    <3>1. Answers(w, x) \subseteq Result
      BY <2>1, AnswersAreResults DEF Answers
    <3>2. CASE Goto(w, "ack")
      BY <2>1, <3>2 DEF TypeOK, WorkerState, Goto
    <3>3. ASSUME NEW r \in Answers(w, x),
                 worker' = [worker EXCEPT ![w] = [@ EXCEPT !.pc = "finalize", !.result = r]]
          PROVE  /\ worker' \in [Workers -> WorkerState]
                 /\ \A v \in Workers :
                      /\ worker'[v].pc # "idle" => worker'[v].attempt \in Attempts
                      /\ worker'[v].pc \in {"call", "finalize"} => worker'[v].gen \in 1 .. MaxGen
                      /\ worker'[v].pc = "finalize" => worker'[v].result \in Result
      <4>1. r \in Result BY <3>1
      <4>2. [worker[w] EXCEPT !.pc = "finalize", !.result = r] \in WorkerState
        BY <2>1, <4>1 DEF WorkerState
      <4> QED BY <2>1, <3>3, <4>1, <4>2 DEF TypeOK, WorkerState
    <3> QED BY <2>2, <3>2, <3>3 DEF Returned
  <2>3. CASE Submit(w)
    <3>1. \E x : Returned(w, x) BY <2>3 DEF Submit
    <3> QED BY <2>1, <2>2, <2>3, <3>1 DEF TypeOK, Submit, Final
  <2>4. CASE Poll(w)
    BY <2>2, <2>4 DEF TypeOK, Poll
  <2> QED BY <1>8, <2>3, <2>4
<1>9. ASSUME NEW w \in Workers, FinalizeRefused(w) \/ UnavailableSkipped(w) PROVE TypeOK'
  BY <1>9 DEF TypeOK, FinalizeRefused, UnavailableSkipped, Goto, WorkerState
<1>10. ASSUME NEW a \in Attempts, NEW r \in Result, NEW g \in 0 .. MaxGen,
              RecordEvidence(a, r, g)
       PROVE  /\ observations' \subseteq
                   [attempt: Attempts, id: ObservationId,
                    outcome: {"settled", "rejected", "uncertain"},
                    verified: BOOLEAN, accepted: BOOLEAN, gen: 0 .. MaxGen]
              /\ reconciliations' \subseteq
                   [attempt: Attempts,
                    provider: {"settled", "rejected", "uncertain", "unknown"},
                    internal: Status, status: {"matched", "unknown", "mismatch"}]
  <2>1. RecordedRow(a, r).status \in Status
    BY RecordedRowTypes DEF Row
  <2>2. Reconciliation(a, ProviderStatus(r), RecordedRow(a, r).status) \in
          [attempt: Attempts, provider: {"settled", "rejected", "uncertain", "unknown"},
           internal: Status, status: {"matched", "unknown", "mismatch"}]
    BY <2>1, RecordedTypes DEF Reconciliation
  <2>3. Observation(a, r, g) \in
          [attempt: Attempts, id: ObservationId,
           outcome: {"settled", "rejected", "uncertain"},
           verified: BOOLEAN, accepted: BOOLEAN, gen: 0 .. MaxGen]
    BY RecordedTypes
  <2> QED BY <1>10, <2>2, <2>3 DEF RecordEvidence, TypeOK
<1>11. ASSUME NEW w \in Workers, FinalizeClaimedResult(w) PROVE TypeOK'
  <2> DEFINE a == worker[w].attempt
             r == worker[w].result
  <2>1. a \in Attempts /\ r \in Result /\ worker[w].gen \in 0 .. MaxGen
    BY <1>11 DEF FinalizeClaimedResult, TypeOK
  <2>2. [RecordedRow(a, r) EXCEPT !.evidence = Evidence(r, @), !.token = 0,
                                  !.claimLive = FALSE] \in Row
    <3>1. RecordedRow(a, r) \in Row BY <2>1, RecordedRowTypes
    <3>2. Evidence(r, RecordedRow(a, r).evidence) \in {"none", "ambiguous", "ids"}
      BY <3>1 DEF Row, Evidence
    <3>3. 0 \in Token BY DEF Token
    <3> QED BY <3>1, <3>2, <3>3 DEF Row
  <2>3. row' \in [Attempts -> Row]
    BY <1>11, <2>1, <2>2 DEF FinalizeClaimedResult, TypeOK
  <2> QED BY <1>10, <1>11, <2>1, <2>3 DEF FinalizeClaimedResult, Goto, TypeOK, WorkerState
<1>12. ASSUME NEW w \in Workers, UnavailableRecorded(w) PROVE TypeOK'
  <2> DEFINE a == worker[w].attempt
  <2>1. a \in Attempts /\ UnavailableResult(a) \in Result
    BY <1>12 DEF UnavailableRecorded, TypeOK, UnavailableResult, Result, ObservationId
  <2>2. row' \in [Attempts -> Row]
    BY <1>12, <2>1, RecordedRowTypes DEF UnavailableRecorded, TypeOK
  <2> QED BY <1>10, <1>12, <2>1, <2>2 DEF UnavailableRecorded, Goto, TypeOK, WorkerState
<1>13. ASSUME NEW s \in Sweepers, NEW status \in {"uncertain", "retryable"},
              SweepRead(s, status)
       PROVE TypeOK'
  <2>1. PICK due \in SUBSET Attempts :
          sweep' = [sweep EXCEPT ![s] = [@ EXCEPT !.pc = status, !.todo = due]]
    BY <1>13 DEF SweepRead
  <2>2. [sweep[s] EXCEPT !.pc = status, !.todo = due] \in SweepState
    BY DEF TypeOK, SweepState
  <2>3. sweep' \in [Sweepers -> SweepState]
    BY <2>1, <2>2 DEF TypeOK
  <2> QED BY <1>13, <2>3 DEF TypeOK, SweepRead
<1>14. ASSUME NEW s \in Sweepers, NEW a \in Attempts, SweepReconcile(s, a) PROVE TypeOK'
  <2>1. Reconciliation(a, "unknown", "uncertain") \in
          [attempt: Attempts, provider: {"settled", "rejected", "uncertain", "unknown"},
           internal: Status, status: {"matched", "unknown", "mismatch"}]
    BY DEF Reconciliation, Status, Final
  <2>2. sweep' \in [Sweepers -> SweepState]
    BY <1>14 DEF TypeOK, SweepReconcile, SweepState
  <2> QED BY <1>14, <2>1, <2>2 DEF TypeOK, SweepReconcile
<1>15. ASSUME NEW s \in Sweepers, NEW a \in Attempts, SweepNext(s, a) PROVE TypeOK'
  BY <1>15 DEF TypeOK, SweepNext, SweepState
<1>16. ASSUME NEW s \in Sweepers, SweepApply(s) PROVE TypeOK'
  <2>1. sweep[s] \in SweepState /\ sweep[s].current \in Attempts
    BY <1>16 DEF TypeOK, SweepApply, SweepState
  <2>2. row' \in [Attempts -> Row]
    <3> DEFINE a == sweep[s].current
    <3>1. [row[a] EXCEPT !.status = "review", !.ids = FALSE] \in Row
      <4>1. row[a] \in Row /\ "review" \in Status BY <2>1 DEF TypeOK, Status
      <4> QED BY <4>1 DEF Row
    <3> QED BY <1>16, <2>1, <3>1 DEF TypeOK, SweepApply
  <2>3. sweep' \in [Sweepers -> SweepState]
    BY <1>16, <2>1 DEF TypeOK, SweepApply, SweepState, SweepIdle
  <2> QED BY <1>16, <2>2, <2>3 DEF TypeOK, SweepApply
<1>17. ASSUME NEW s \in Sweepers, SweepAborts(s) PROVE TypeOK'
  BY <1>17 DEF TypeOK, SweepAborts, SweepState, SweepIdle
<1>18. ASSUME NEW a \in Attempts, ClaimExpires(a) \/ ProviderDecides(a) PROVE TypeOK'
  <2>1. CASE ClaimExpires(a)
    <3>1. row[a] \in Row BY DEF TypeOK
    <3>2. [row[a] EXCEPT !.claimLive = FALSE] \in Row BY <3>1 DEF Row
    <3>3. row' = [row EXCEPT ![a] = [row[a] EXCEPT !.claimLive = FALSE]]
      BY <2>1 DEF ClaimExpires
    <3>4. row' \in [Attempts -> Row] BY <3>2, <3>3 DEF TypeOK
    <3> QED BY <2>1, <3>4 DEF TypeOK, ClaimExpires
  <2>2. CASE ProviderDecides(a)
    BY <2>2 DEF TypeOK, ProviderDecides
  <2> QED BY <1>18, <2>1, <2>2
<1>19. CASE UNCHANGED vars
  BY <1>19 DEF TypeOK, vars
<1> QED BY <1>1, <1>2, <1>3, <1>4, <1>5, <1>6, <1>7, <1>8, <1>9, <1>11, <1>12, <1>13,
           <1>14, <1>15, <1>16, <1>17, <1>18, <1>19 DEF Next, WorkerStep, SweepStep

----------------------------------------------------------------------------
(* The inductive invariant.                                                *)

LEMMA InvInit == Init => IInv
<1> SUFFICES ASSUME Init PROVE IInv OBVIOUS
<1>1. TypeOK BY TypeInit
<1>2. \A a \in Attempts : row[a].status = "pending" /\ ~row[a].submitStarted
  BY DEF Init, NewRow
<1>3. /\ \A w \in Workers : worker[w].pc = "idle"
      /\ observations = {}
      /\ \A a \in Attempts : submits[a] = 0
  BY DEF Init, Idle
<1> QED BY <1>1, <1>2, <1>3 DEF IInv, ClaimInv, SubmitInv, TruthInv, NeverDeadLetter, InCall,
        Submitting, AtMostOneSubmit, FinalityIsEvidenced, FinalityIsTrue, OneResultPerClaim, Final

\* A step that no safety property can notice: it writes no evidence, draws no
\* claim, submits nothing, moves statuses only to "uncertain" or "review" and
\* leaves every worker that is in a provider call where it is, or stops it.
QuietStep ==
  /\ observations' = observations
  /\ submits' = submits
  /\ \A a \in Attempts :
       /\ row'[a].generation = row[a].generation
       /\ row'[a].submitStarted = row[a].submitStarted
       /\ \/ row'[a].status = row[a].status
          \/ row[a].status \notin Final /\ row'[a].status \in {"uncertain", "review"}
       /\ ext'[a] = ext[a] \/ ext[a] \notin Final
  /\ \A w \in Workers : InCall(w)' => worker'[w] = worker[w]

\* The sweeps, the broker, the provider and the refused or early-returning
\* worker steps are quiet.
LEMMA QuietSteps ==
  ASSUME TypeOK, TypeOK', [Next]_vars,
         \A w \in Workers : ~(\/ ClaimGranted(w) \/ Submit(w) \/ Poll(w)
                              \/ FinalizeClaimedResult(w) \/ UnavailableRecorded(w))
  PROVE  QuietStep
<1>1. ASSUME NEW w \in Workers, NEW a \in Attempts, Receive(w, a) PROVE QuietStep
  BY <1>1 DEF Receive, QuietStep, InCall, Idle, TypeOK
<1>2. ASSUME NEW w \in Workers, Ack(w) \/ Crash(w) PROVE QuietStep
  BY <1>2 DEF Ack, Crash, QuietStep, InCall, Idle, TypeOK
<1>3. ASSUME NEW w \in Workers, Execute(w) PROVE QuietStep
  BY <1>3 DEF Execute, Goto, QuietStep, InCall, TypeOK, WorkerState
<1>4. ASSUME NEW w \in Workers, StatusFirst(w) PROVE QuietStep
  <2> DEFINE a == worker[w].attempt
  <2>1. a \in Attempts /\ worker[w] \in WorkerState /\ row[a] \in Row
    BY <1>4 DEF StatusFirst, TypeOK
  <2>2. \A v \in Workers : InCall(v)' => worker'[v] = worker[v]
    BY <1>4, <2>1 DEF StatusFirst, Goto, InCall, TypeOK, WorkerState
  <2>3. CASE row' = row
    BY <1>4, <2>2, <2>3 DEF StatusFirst, QuietStep
  <2>4. CASE ~NothingToDo(row[a]) /\ row' = [row EXCEPT ![a].status = "uncertain"]
    BY <1>4, <2>1, <2>2, <2>4 DEF StatusFirst, QuietStep, NothingToDo, IsTerminal, TypeOK, Row
  <2> QED BY <1>4, <2>3, <2>4 DEF StatusFirst
<1>5. ASSUME NEW w \in Workers,
             \/ ClaimRefused(w) \/ ClaimUnresolved(w)
             \/ FinalizeRefused(w) \/ UnavailableSkipped(w)
      PROVE QuietStep
  BY <1>5 DEF ClaimRefused, ClaimUnresolved, FinalizeRefused, UnavailableSkipped, Goto,
              QuietStep, InCall, TypeOK, WorkerState
<1>6. ASSUME NEW s \in Sweepers, NEW a \in Attempts,
             SweepReconcile(s, a) \/ SweepNext(s, a)
      PROVE QuietStep
  BY <1>6 DEF SweepReconcile, SweepNext, QuietStep
<1>7. ASSUME NEW s \in Sweepers, SweepApply(s) PROVE QuietStep
  <2> DEFINE a == sweep[s].current
  <2>1. a \in Attempts /\ row[a] \in Row
    BY <1>7 DEF SweepApply, TypeOK, SweepState
  <2>2. CASE row' = row
    BY <1>7, <2>2 DEF SweepApply, QuietStep
  <2>3. CASE /\ ~IsTerminal(row[a].status)
             /\ row' = [row EXCEPT ![a] = [@ EXCEPT !.status = "review", !.ids = FALSE]]
    BY <1>7, <2>1, <2>3 DEF SweepApply, QuietStep, IsTerminal, TypeOK, Row
  <2> QED BY <1>7, <2>2, <2>3 DEF SweepApply
<1>8. ASSUME NEW s \in Sweepers, NEW status \in {"uncertain", "retryable"},
             SweepRead(s, status) \/ SweepAborts(s)
      PROVE QuietStep
  BY <1>8 DEF SweepRead, SweepAborts, QuietStep
<1>9. ASSUME NEW a \in Attempts, ClaimExpires(a) PROVE QuietStep
  BY <1>9 DEF ClaimExpires, QuietStep, TypeOK, Row
<1>10. ASSUME NEW a \in Attempts, ProviderDecides(a) PROVE QuietStep
  BY <1>10 DEF ProviderDecides, QuietStep, TypeOK, Final
<1>11. CASE UNCHANGED vars
  BY <1>11 DEF vars, QuietStep
<1> QED BY <1>1, <1>2, <1>3, <1>4, <1>5, <1>6, <1>7, <1>8, <1>9, <1>10, <1>11
        DEF Next, WorkerStep, SweepStep

LEMMA QuietPreserves ==
  ASSUME IInv, TypeOK', QuietStep PROVE IInv'
<1>1. ClaimInv'
  BY DEF IInv, ClaimInv, QuietStep, InCall, TypeOK
<1>2. SubmitInv'
  <2>1. \A v \in Workers : Submitting(v)' => Submitting(v) /\ worker'[v] = worker[v]
    BY DEF QuietStep, InCall, Submitting
  <2>2. \A v \in Workers : Submitting(v) => worker[v].attempt \in Attempts
    BY DEF IInv, TypeOK, Submitting
  <2>3. \A a \in Attempts : /\ row'[a].submitStarted = row[a].submitStarted
                            /\ submits'[a] = submits[a]
    BY DEF QuietStep
  <2> QED BY <2>1, <2>2, <2>3 DEF IInv, SubmitInv, Submitting
<1>3. TruthInv'
  <2> SUFFICES ASSUME NEW w \in Workers, worker'[w].pc = "finalize",
                      AcceptedFinality(worker'[w].result)
               PROVE  ext'[worker'[w].attempt] = worker'[w].result.class
    BY DEF TruthInv
  <2>1. worker'[w] = worker[w] /\ worker[w].attempt \in Attempts
    BY DEF QuietStep, InCall, IInv, TypeOK
  <2>2. ext[worker[w].attempt] = worker[w].result.class /\ worker[w].result.class \in Final
    BY <2>1 DEF IInv, TruthInv, AcceptedFinality
  <2> QED BY <2>1, <2>2 DEF QuietStep
<1>4. NeverDeadLetter' /\ AtMostOneSubmit'
  BY DEF IInv, NeverDeadLetter, AtMostOneSubmit, QuietStep
<1>5. FinalityIsEvidenced' /\ FinalityIsTrue'
  BY DEF IInv, FinalityIsEvidenced, FinalityIsTrue, QuietStep, Final
<1>6. OneResultPerClaim'
  BY DEF IInv, OneResultPerClaim, QuietStep
<1> QED BY <1>1, <1>2, <1>3, <1>4, <1>5, <1>6 DEF IInv

\* A granted claim draws a generation above every worker's and every
\* observation's, and admits a submit only if none was admitted before.
LEMMA ClaimGrantedPreserves ==
  ASSUME IInv, TypeOK', NEW w \in Workers, ClaimGranted(w) PROVE IInv'
<1> DEFINE a == worker[w].attempt
           g == row[a].generation + 1
<1>1. a \in Attempts /\ row[a] \in Row /\ worker[w] \in WorkerState
  BY DEF IInv, TypeOK, ClaimGranted
<1>2. /\ row'[a].generation = g
      /\ row'[a].submitStarted = (row[a].submitStarted \/ ~ShouldPoll(row[a]))
      /\ row'[a].status = row[a].status
      /\ \A b \in Attempts : b # a => row'[b] = row[b]
  BY <1>1 DEF ClaimGranted, ClaimedRow, Row, IInv, TypeOK
<1>3. /\ worker'[w].pc = "call" /\ worker'[w].attempt = a /\ worker'[w].gen = g
      /\ worker'[w].poll = ShouldPoll(row[a])
      /\ \A v \in Workers : v # w => worker'[v] = worker[v]
  BY <1>1 DEF ClaimGranted, WorkerState, IInv, TypeOK
<1>4. /\ observations' = observations /\ submits' = submits /\ ext' = ext
  BY DEF ClaimGranted
<1>5. row[a].generation \in Nat /\ g \in Nat /\ \A b \in Attempts : row[b].generation \in Nat
  BY <1>1, MaxGenAssumption DEF IInv, TypeOK, Row
<1>6. /\ \A o \in observations : o.gen \in Nat /\ o.attempt \in Attempts
      /\ \A v \in Workers : worker[v].gen \in Nat
  BY MaxGenAssumption DEF IInv, TypeOK, WorkerState
<1> HIDE DEF g, a
<1>7. ClaimInv'
  <2>1. g = row[a].generation + 1 BY DEF g
  <2>2. \A v \in Workers : InCall(v) => worker[v].attempt \in Attempts
    BY DEF IInv, TypeOK, InCall
  <2> QED BY <1>1, <1>2, <1>3, <1>4, <1>5, <1>6, <2>1, <2>2 DEF IInv, ClaimInv, InCall
<1>8. SubmitInv'
  <2>1. \A b \in Attempts : ~row'[b].submitStarted => submits'[b] = 0
    BY <1>1, <1>2, <1>4 DEF IInv, SubmitInv
  <2>2. Submitting(w)' => ~row[a].submitStarted /\ row'[a].submitStarted
    BY <1>2, <1>3 DEF Submitting, ShouldPoll
  <2>3. \A v \in Workers : Submitting(v) /\ ~row[a].submitStarted => worker[v].attempt # a
    BY <1>1 DEF IInv, SubmitInv
  <2>4. \A v \in Workers : v # w /\ Submitting(v)' => Submitting(v) /\ worker'[v] = worker[v]
    BY <1>3 DEF Submitting
  <2>5. \A b \in Attempts : row[b].submitStarted => row'[b].submitStarted
    BY <1>1, <1>2
  <2>6. \A v \in Workers : Submitting(v) => worker[v].attempt \in Attempts
    BY DEF IInv, TypeOK, Submitting
  <2>7. \A v \in Workers :
          Submitting(v)' => /\ submits'[worker'[v].attempt] = 0
                            /\ row'[worker'[v].attempt].submitStarted
    <3> SUFFICES ASSUME NEW v \in Workers, Submitting(v)'
                 PROVE  /\ submits'[worker'[v].attempt] = 0
                        /\ row'[worker'[v].attempt].submitStarted
      OBVIOUS
    <3>1. CASE v = w
      BY <1>1, <1>3, <1>4, <2>2, <3>1 DEF IInv, SubmitInv
    <3>2. CASE v # w
      BY <1>4, <2>4, <2>5, <2>6, <3>2 DEF IInv, SubmitInv
    <3> QED BY <3>1, <3>2
  <2>8. \A u, v \in Workers :
          Submitting(u)' /\ Submitting(v)' /\ worker'[u].attempt = worker'[v].attempt => u = v
    BY <1>3, <2>2, <2>3, <2>4 DEF IInv, SubmitInv
  <2> QED BY <2>1, <2>7, <2>8 DEF SubmitInv, Submitting
<1>9. TruthInv'
  BY <1>3, <1>4 DEF IInv, TruthInv
<1>10. NeverDeadLetter' /\ AtMostOneSubmit' /\ OneResultPerClaim'
  BY <1>2, <1>4 DEF IInv, NeverDeadLetter, AtMostOneSubmit, OneResultPerClaim
<1>11. \A b \in Attempts : row'[b].status = row[b].status BY <1>2
<1>12. FinalityIsEvidenced' /\ FinalityIsTrue'
  BY <1>4, <1>11 DEF IInv, FinalityIsEvidenced, FinalityIsTrue
<1> QED BY <1>7, <1>8, <1>9, <1>10, <1>12 DEF IInv

\* The call: only the one admitted submitter submits, and what comes back
\* attested is what the provider's books say.
LEMMA CallPreserves ==
  ASSUME IInv, TypeOK', NEW w \in Workers, Submit(w) \/ Poll(w) PROVE IInv'
<1> DEFINE a == worker[w].attempt
<1>1. a \in Attempts /\ worker[w] \in WorkerState /\ worker[w].pc = "call"
  BY DEF IInv, TypeOK, Submit, Poll
<1>2. row' = row /\ observations' = observations
  BY DEF Submit, Poll
<1>3. PICK x : ext'[a] = x /\ Returned(w, x) /\ (ext[a] \in Final => x = ext[a])
  BY <1>1 DEF Submit, Poll, IInv, TypeOK, Final
<1>4. \A b \in Attempts : b # a => ext'[b] = ext[b] /\ submits'[b] = submits[b]
  BY <1>1 DEF Submit, Poll, IInv, TypeOK
<1>5. /\ \A v \in Workers : v # w => worker'[v] = worker[v]
      /\ worker'[w].attempt = a /\ worker'[w].gen = worker[w].gen
      /\ worker'[w].pc \in {"finalize", "ack"}
      /\ worker'[w].pc = "finalize" => worker'[w].result \in Answers(w, x)
  <2>1. CASE Goto(w, "ack")
    BY <1>1, <2>1 DEF Goto, IInv, TypeOK, WorkerState
  <2>2. ASSUME NEW r \in Answers(w, x),
               worker' = [worker EXCEPT ![w] = [@ EXCEPT !.pc = "finalize", !.result = r]]
        PROVE  /\ \A v \in Workers : v # w => worker'[v] = worker[v]
               /\ worker'[w].attempt = a /\ worker'[w].gen = worker[w].gen
               /\ worker'[w].pc = "finalize" /\ worker'[w].result = r
    BY <1>1, <2>2 DEF IInv, TypeOK, WorkerState
  <2> QED BY <1>3, <2>1, <2>2 DEF Returned
<1> HIDE DEF a
<1>6. ClaimInv'
  <2>1. InCall(w) BY <1>1 DEF InCall
  <2>2. \A v \in Workers : InCall(v)' => /\ InCall(v) /\ worker'[v].attempt = worker[v].attempt
                                         /\ worker'[v].gen = worker[v].gen
    BY <1>5, <2>1 DEF InCall, a
  <2> QED BY <1>2, <2>2 DEF IInv, ClaimInv, InCall
<1>7. SubmitInv' /\ AtMostOneSubmit'
  <2>1. CASE Submit(w)
    <3>1. Submitting(w) /\ submits[a] = 0 /\ row[a].submitStarted
      BY <2>1 DEF Submit, Submitting, IInv, SubmitInv, a
    <3>2. submits'[a] = 1
      BY <1>1, <2>1, <3>1 DEF Submit, IInv, TypeOK, a
    <3>3. \A v \in Workers : Submitting(v)' => Submitting(v) /\ worker'[v] = worker[v] /\ v # w
      BY <1>5 DEF Submitting
    <3>4. \A v \in Workers : Submitting(v)' => worker[v].attempt # a
      BY <3>1, <3>3 DEF IInv, SubmitInv, a
    <3>5. \A v \in Workers : Submitting(v) => worker[v].attempt \in Attempts
      BY DEF IInv, TypeOK, Submitting
    <3>6. SubmitInv'
      BY <1>2, <1>4, <3>1, <3>2, <3>3, <3>4, <3>5 DEF IInv, SubmitInv, Submitting
    <3>7. AtMostOneSubmit'
      BY <1>4, <3>2 DEF IInv, AtMostOneSubmit
    <3> QED BY <3>6, <3>7
  <2>2. CASE Poll(w)
    <3>1. submits' = submits BY <2>2 DEF Poll
    <3>2. \A v \in Workers : Submitting(v)' => Submitting(v) /\ worker'[v] = worker[v]
      BY <1>5 DEF Submitting
    <3> QED BY <1>2, <3>1, <3>2 DEF IInv, SubmitInv, AtMostOneSubmit, Submitting
  <2> QED BY <2>1, <2>2
<1>8. TruthInv'
  <2> SUFFICES ASSUME NEW v \in Workers, worker'[v].pc = "finalize",
                      AcceptedFinality(worker'[v].result)
               PROVE  ext'[worker'[v].attempt] = worker'[v].result.class
    BY DEF TruthInv
  <2>1. CASE v = w
    <3>1. worker'[w].result \in ProviderAnswers(x)
      BY <1>5, <2>1 DEF Answers, RuntimeError, AcceptedFinality, Verified
    <3> QED BY <1>3, <1>5, <2>1, <3>1 DEF ProviderAnswers
  <2>2. CASE v # w
    <3>1. worker'[v] = worker[v] /\ worker[v].attempt \in Attempts
      BY <1>5, <2>2 DEF IInv, TypeOK
    <3>2. ext[worker[v].attempt] = worker[v].result.class /\ worker[v].result.class \in Final
      BY <3>1 DEF IInv, TruthInv, AcceptedFinality
    <3> QED BY <1>3, <1>4, <3>1, <3>2
  <2> QED BY <2>1, <2>2
<1>9. FinalityIsTrue'
  BY <1>2, <1>3, <1>4 DEF IInv, FinalityIsTrue
<1>10. NeverDeadLetter' /\ OneResultPerClaim' /\ FinalityIsEvidenced'
  BY <1>2 DEF IInv, NeverDeadLetter, OneResultPerClaim, FinalityIsEvidenced
<1> QED BY <1>6, <1>7, <1>8, <1>9, <1>10 DEF IInv

\* Recording a result for attempt a keeps rows and evidence in agreement.
LEMMA RecordPreserves ==
  ASSUME IInv, NEW a \in Attempts, NEW r \in Result, NEW g \in 0 .. MaxGen,
         RecordEvidence(a, r, g),
         row'[a].status = RecordedRow(a, r).status,
         \A b \in Attempts : b # a => row'[b].status = row[b].status,
         ext' = ext,
         AcceptedFinality(r) => ext[a] = r.class
  PROVE  FinalityIsEvidenced' /\ FinalityIsTrue' /\ NeverDeadLetter'
<1> DEFINE o == Observation(a, r, g)
           s == row[a].status
<1>1. /\ o.attempt = a /\ o.accepted = AcceptedFinality(r) /\ o.verified = Verified(r)
      /\ o.outcome = FinalOutcome(r)
      /\ observations' = observations \cup {o}
  BY DEF Observation, RecordEvidence
<1>2. row'[a].status = IF IsTerminal(s) THEN s ELSE Target(r)
  BY RecordedRowTypes DEF IInv
<1>3. s \notin {"dead_letter"} BY DEF IInv, NeverDeadLetter
<1>4. CASE AcceptedFinality(r)
  <2>1. \A p \in observations : ~(p.attempt = a /\ p.accepted)
    BY <1>1, <1>4 DEF RecordEvidence, Recordable, Insertable, Observation
  <2>2. s \notin Final
    BY <2>1 DEF IInv, FinalityIsEvidenced
  <2>3. row'[a].status = r.class /\ r.class \in Final
    BY <1>2, <1>3, <1>4, <2>2 DEF IsTerminal, Target, AcceptedFinality
  <2>4. o.outcome = r.class /\ o.verified
    BY <1>1, <1>4, <2>3 DEF FinalOutcome, AcceptedFinality
  <2> HIDE DEF o, s
  <2>5. FinalityIsEvidenced'
    <3> DEFINE acc(S, b) == {p \in S : p.attempt = b /\ p.accepted}
    <3>1. acc(observations', a) = {o} BY <1>1, <1>4, <2>1
    <3>2. \A b \in Attempts : b # a => acc(observations', b) = acc(observations, b)
      BY <1>1
    <3> HIDE DEF acc
    <3>3. \A p \in acc(observations', a) :
             p.verified /\ p.outcome \in Final /\ p.outcome = row'[a].status
      BY <2>3, <2>4, <3>1
    <3>4. \A b \in Attempts :
            /\ \A p \in acc(observations, b) :
                  p.verified /\ p.outcome \in Final /\ p.outcome = row[b].status
            /\ \A p, q \in acc(observations, b) : p = q
            /\ row[b].status \in Final => acc(observations, b) # {}
      BY DEF IInv, FinalityIsEvidenced, acc
    <3>5. \A b \in Attempts :
            /\ \A p \in acc(observations', b) :
                  p.verified /\ p.outcome \in Final /\ p.outcome = row'[b].status
            /\ \A p, q \in acc(observations', b) : p = q
            /\ row'[b].status \in Final => acc(observations', b) # {}
      BY <3>1, <3>2, <3>3, <3>4
    <3> QED BY <3>5 DEF FinalityIsEvidenced, acc
  <2>6. FinalityIsTrue'
    BY <1>4, <2>3 DEF IInv, FinalityIsTrue
  <2>7. NeverDeadLetter'
    BY <2>3 DEF IInv, NeverDeadLetter, Final
  <2> QED BY <2>5, <2>6, <2>7
<1>5. CASE ~AcceptedFinality(r)
  <2>1. \/ row'[a].status = s
        \/ /\ s \notin Final
           /\ row'[a].status \in {"uncertain", "retryable", "review"}
    BY <1>2, <1>5 DEF IsTerminal, Target
  <2>2. ~o.accepted BY <1>1, <1>5
  <2>3. \A b \in Attempts : {p \in observations' : p.attempt = b /\ p.accepted}
                            = {p \in observations : p.attempt = b /\ p.accepted}
    BY <1>1, <2>2
  <2> HIDE DEF o
  <2>4. FinalityIsEvidenced'
    BY <2>1, <2>3 DEF IInv, FinalityIsEvidenced, Final
  <2>5. FinalityIsTrue' /\ NeverDeadLetter'
    BY <2>1 DEF IInv, FinalityIsTrue, NeverDeadLetter, Final
  <2> QED BY <2>4, <2>5
<1> QED BY <1>4, <1>5

\* The fenced finalizer adds the only observation of its generation.
LEMMA FinalizePreserves ==
  ASSUME IInv, TypeOK', NEW w \in Workers, FinalizeClaimedResult(w) PROVE IInv'
<1> DEFINE a == worker[w].attempt
           r == worker[w].result
           g == worker[w].gen
           o == Observation(a, r, g)
<1>1. /\ a \in Attempts /\ r \in Result /\ g \in 0 .. MaxGen /\ g \in 1 .. MaxGen
      /\ worker[w] \in WorkerState /\ InCall(w) /\ worker[w].pc = "finalize"
  BY MaxGenAssumption DEF IInv, TypeOK, FinalizeClaimedResult, InCall
<1>2. RecordedRow(a, r) \in Row /\ RecordedRow(a, r).generation = row[a].generation
      /\ RecordedRow(a, r).submitStarted = row[a].submitStarted
  BY <1>1, RecordedRowTypes DEF IInv
<1>3. /\ row'[a].generation = row[a].generation
      /\ row'[a].submitStarted = row[a].submitStarted
      /\ row'[a].status = RecordedRow(a, r).status
      /\ \A b \in Attempts : b # a => row'[b] = row[b]
  BY <1>1, <1>2 DEF FinalizeClaimedResult, IInv, TypeOK, Row
<1>4. /\ worker'[w].pc = "ack"
      /\ \A v \in Workers : v # w => worker'[v] = worker[v]
      /\ \A v \in Workers : InCall(v)' => worker'[v] = worker[v] /\ v # w
  BY <1>1 DEF FinalizeClaimedResult, Goto, IInv, TypeOK, WorkerState, InCall
<1>5. submits' = submits /\ ext' = ext /\ RecordEvidence(a, r, g)
  BY DEF FinalizeClaimedResult
<1>6. observations' = observations \cup {o} /\ o.attempt = a /\ o.gen = g
  BY <1>5 DEF RecordEvidence, Observation
<1>7. g = row[a].generation
  BY DEF FinalizeClaimedResult, OwnsClaim
<1>8. \A p \in observations : p.attempt = a => p.gen # g
  BY <1>1 DEF IInv, ClaimInv
<1>9. \A v \in Workers : InCall(v) /\ v # w /\ worker[v].attempt = a => worker[v].gen # g
  BY <1>1 DEF IInv, ClaimInv
<1>10. \A v \in Workers : InCall(v) => worker[v].attempt \in Attempts
  BY DEF IInv, TypeOK, InCall
<1>11. \A p \in observations : p.attempt \in Attempts
  BY DEF IInv, TypeOK
<1>12. row[a].generation <= row[a].generation
  BY <1>1, MaxGenAssumption DEF IInv, TypeOK, Row
<1>13. FinalityIsEvidenced' /\ FinalityIsTrue' /\ NeverDeadLetter'
  <2>1. AcceptedFinality(r) => ext[a] = r.class
    BY <1>1 DEF IInv, TruthInv
  <2>2. \A b \in Attempts : b # a => row'[b].status = row[b].status BY <1>3
  <2> HIDE DEF a, r, g
  <2> QED BY <1>1, <1>3, <1>5, <2>1, <2>2, RecordPreserves
<1>14. \A b \in Attempts : /\ row'[b].generation = row[b].generation
                           /\ row'[b].submitStarted = row[b].submitStarted
  BY <1>3
<1> HIDE DEF a, r, g, o
<1>15. ClaimInv'
  BY <1>4, <1>6, <1>7, <1>8, <1>9, <1>10, <1>11, <1>12, <1>14, <1>1 DEF IInv, ClaimInv, InCall
<1>16. SubmitInv' /\ AtMostOneSubmit'
  <2>1. \A v \in Workers : Submitting(v)' => Submitting(v) /\ worker'[v] = worker[v]
    BY <1>4 DEF Submitting
  <2>2. \A v \in Workers : Submitting(v) => worker[v].attempt \in Attempts
    BY DEF IInv, TypeOK, Submitting
  <2> QED BY <1>5, <1>14, <2>1, <2>2 DEF IInv, SubmitInv, AtMostOneSubmit, Submitting
<1>17. TruthInv'
  BY <1>4, <1>5 DEF IInv, TruthInv
<1>18. OneResultPerClaim'
  BY <1>6, <1>8 DEF IInv, OneResultPerClaim
<1> QED BY <1>13, <1>15, <1>16, <1>17, <1>18 DEF IInv

\* The configuration observation carries no claim generation.
LEMMA UnavailablePreserves ==
  ASSUME IInv, TypeOK', NEW w \in Workers, UnavailableRecorded(w) PROVE IInv'
<1> DEFINE a == worker[w].attempt
           r == UnavailableResult(a)
           o == Observation(a, r, 0)
<1>1. a \in Attempts /\ worker[w] \in WorkerState /\ worker[w].pc = "unavailable"
  BY DEF IInv, TypeOK, UnavailableRecorded
<1>2. r \in Result /\ ~AcceptedFinality(r)
  BY <1>1 DEF UnavailableResult, Result, ObservationId, AcceptedFinality, Verified
<1>3. RecordedRow(a, r) \in Row /\ RecordedRow(a, r).generation = row[a].generation
      /\ RecordedRow(a, r).submitStarted = row[a].submitStarted
  BY <1>1, <1>2, RecordedRowTypes DEF IInv
<1>4. row' = [row EXCEPT ![a] = RecordedRow(a, r)] /\ submits' = submits /\ ext' = ext
      /\ RecordEvidence(a, r, 0)
  BY DEF UnavailableRecorded
<1>5. /\ row'[a] = RecordedRow(a, r)
      /\ \A b \in Attempts : b # a => row'[b] = row[b]
  BY <1>1, <1>4 DEF IInv, TypeOK
<1>6. observations' = observations \cup {o} /\ o.attempt = a /\ o.gen = 0
  BY <1>4 DEF RecordEvidence, Observation
<1>7. \A v \in Workers : InCall(v)' => worker'[v] = worker[v]
  BY <1>1 DEF UnavailableRecorded, Goto, IInv, TypeOK, WorkerState, InCall
<1>8. \A v \in Workers : InCall(v) => worker[v].attempt \in Attempts /\ worker[v].gen \in 1 .. MaxGen
  BY DEF IInv, TypeOK, InCall
<1>9. \A b \in Attempts : /\ row'[b].generation = row[b].generation
                          /\ row'[b].submitStarted = row[b].submitStarted
  BY <1>3, <1>5
<1>10. \A p \in observations : p.attempt \in Attempts
  BY DEF IInv, TypeOK
<1>11. 0 <= row[a].generation /\ 0 \in 0 .. MaxGen
  BY <1>1, MaxGenAssumption DEF IInv, TypeOK, Row
<1> HIDE DEF a, r, o
<1>12. FinalityIsEvidenced' /\ FinalityIsTrue' /\ NeverDeadLetter'
  BY <1>1, <1>2, <1>4, <1>5, <1>11, RecordPreserves
<1>13. ClaimInv'
  <2>1. \A v \in Workers : InCall(v) => worker[v].gen # 0
    BY <1>8, MaxGenAssumption
  <2> QED BY <1>1, <1>6, <1>7, <1>8, <1>9, <1>10, <1>11, <2>1 DEF IInv, ClaimInv, InCall
<1>14. SubmitInv' /\ AtMostOneSubmit'
  <2>1. \A v \in Workers : Submitting(v)' => Submitting(v) /\ worker'[v] = worker[v]
    BY <1>7 DEF Submitting, InCall
  <2>2. \A v \in Workers : Submitting(v) => worker[v].attempt \in Attempts
    BY DEF IInv, TypeOK, Submitting
  <2> QED BY <1>4, <1>9, <2>1, <2>2 DEF IInv, SubmitInv, AtMostOneSubmit, Submitting
<1>15. TruthInv'
  BY <1>4, <1>7 DEF IInv, TruthInv, InCall
<1>16. OneResultPerClaim'
  BY <1>6 DEF IInv, OneResultPerClaim
<1> QED BY <1>12, <1>13, <1>14, <1>15, <1>16 DEF IInv

LEMMA InvStep == IInv /\ [Next]_vars => IInv'
<1> SUFFICES ASSUME IInv, [Next]_vars PROVE IInv' OBVIOUS
<1>1. TypeOK' BY TypeStep DEF IInv
<1>2. CASE \E w \in Workers : \/ ClaimGranted(w) \/ Submit(w) \/ Poll(w)
                              \/ FinalizeClaimedResult(w) \/ UnavailableRecorded(w)
  BY <1>1, <1>2, ClaimGrantedPreserves, CallPreserves, FinalizePreserves, UnavailablePreserves
<1>3. CASE \A w \in Workers : ~(\/ ClaimGranted(w) \/ Submit(w) \/ Poll(w)
                                \/ FinalizeClaimedResult(w) \/ UnavailableRecorded(w))
  BY <1>1, <1>3, QuietSteps, QuietPreserves DEF IInv
<1> QED BY <1>2, <1>3

----------------------------------------------------------------------------
(* The theorems.                                                           *)

\* The inductive invariant holds in every reachable state of the runtime.
THEOREM Invariance == Spec => []IInv
BY InvInit, InvStep, PTL DEF Spec

\* The runtime's tables, workers and sweeps keep their types.
THEOREM TypeCorrect == Spec => []TypeOK
BY Invariance, PTL DEF IInv

\* submit_or_poll never submits one attempt twice, for any number of workers,
\* crashes, redeliveries, expiries and takeovers.
THEOREM SubmitOnce == Spec => []AtMostOneSubmit
BY Invariance, PTL DEF IInv

\* An attempt is final exactly when one verified accepted observation says so
\* (record_observation, apply_outcome, the triage sweeps).
THEOREM FinalityEvidenced == Spec => []FinalityIsEvidenced
BY Invariance, PTL DEF IInv

\* A final attempt agrees with the provider's own books.
THEOREM FinalityTrue == Spec => []FinalityIsTrue
BY Invariance, PTL DEF IInv

\* finalize_claimed_result leaves one observation per claim generation.
THEOREM ResultOncePerClaim == Spec => []OneResultPerClaim
BY Invariance, PTL DEF IInv

----------------------------------------------------------------------------
(* Action properties.                                                      *)

\* Recording a result either leaves a final status alone or takes an edge.
LEMMA RecordedMoves ==
  ASSUME IInv, NEW a \in Attempts, NEW r \in Result, NEW g, RecordEvidence(a, r, g)
  PROVE  \/ RecordedRow(a, r).status = row[a].status
         \/ RecordedRow(a, r).status \in ALLOWED_TRANSITIONS[row[a].status]
<1>1. RecordedRow(a, r).status = IF IsTerminal(row[a].status) THEN row[a].status ELSE Target(r)
  BY RecordedRowTypes DEF IInv
<1> QED BY <1>1 DEF RecordEvidence, Recordable, Applicable

\* A live status may always be marked uncertain again (status_first_recovery).
LEMMA UncertainMoves ==
  ASSUME TypeOK, NEW a \in Attempts, ~NothingToDo(row[a])
  PROVE  "uncertain" \in ALLOWED_TRANSITIONS[row[a].status]
<1>1. row[a].status \in {"pending", "retryable", "uncertain"}
  BY DEF TypeOK, Row, NothingToDo, IsTerminal, Final, Status
<1> QED BY <1>1 DEF ALLOWED_TRANSITIONS, Status

LEMMA StatusStep ==
  ASSUME IInv, [Next]_vars, NEW a \in Attempts, row'[a].status # row[a].status
  PROVE  row'[a].status \in ALLOWED_TRANSITIONS[row[a].status]
<1>1. row[a] \in Row /\ DOMAIN row = Attempts BY DEF IInv, TypeOK
<1>2. ASSUME NEW w \in Workers, StatusFirst(w)
      PROVE  row'[a].status \in ALLOWED_TRANSITIONS[row[a].status]
  <2>1. row'[a].status = "uncertain" /\ ~NothingToDo(row[a])
    BY <1>1, <1>2 DEF StatusFirst, Row
  <2> QED BY <2>1, UncertainMoves DEF IInv
<1>3. ASSUME NEW w \in Workers, FinalizeClaimedResult(w)
      PROVE  row'[a].status \in ALLOWED_TRANSITIONS[row[a].status]
  <2> DEFINE c == worker[w].attempt
             r == worker[w].result
  <2>1. c \in Attempts /\ r \in Result
    BY <1>3 DEF IInv, TypeOK, FinalizeClaimedResult
  <2>2. RecordedRow(c, r) \in Row BY <2>1, RecordedRowTypes DEF IInv
  <2>3. a = c /\ row'[a].status = RecordedRow(c, r).status
    BY <1>1, <1>3, <2>1, <2>2 DEF FinalizeClaimedResult, Row
  <2>4. RecordEvidence(c, r, worker[w].gen) BY <1>3 DEF FinalizeClaimedResult
  <2> HIDE DEF c, r
  <2> QED BY <2>1, <2>3, <2>4, RecordedMoves
<1>4. ASSUME NEW w \in Workers, UnavailableRecorded(w)
      PROVE  row'[a].status \in ALLOWED_TRANSITIONS[row[a].status]
  <2> DEFINE c == worker[w].attempt
             r == UnavailableResult(c)
  <2>1. c \in Attempts /\ r \in Result
    BY <1>4 DEF IInv, TypeOK, UnavailableRecorded, UnavailableResult, Result, ObservationId
  <2>2. a = c /\ row'[a].status = RecordedRow(c, r).status
    BY <1>1, <1>4, <2>1 DEF UnavailableRecorded
  <2>3. RecordEvidence(c, r, 0) BY <1>4 DEF UnavailableRecorded
  <2> HIDE DEF c, r
  <2> QED BY <2>1, <2>2, <2>3, RecordedMoves
<1>5. ASSUME NEW s \in Sweepers, SweepApply(s)
      PROVE  row'[a].status \in ALLOWED_TRANSITIONS[row[a].status]
  <2> DEFINE c == sweep[s].current
  <2>1. ~IsTerminal(row[c].status) /\ a = c /\ row'[a].status = "review"
    BY <1>1, <1>5 DEF SweepApply, Row
  <2> QED BY <1>5, <2>1 DEF SweepApply, Applicable
<1>6. CASE \A w \in Workers : ~StatusFirst(w) /\ ~FinalizeClaimedResult(w) /\ ~UnavailableRecorded(w)
  <2>1. ASSUME NEW w \in Workers, ClaimGranted(w) PROVE FALSE
    BY <1>1, <2>1 DEF ClaimGranted, ClaimedRow, Row
  <2>2. ASSUME NEW b \in Attempts, ClaimExpires(b) PROVE FALSE
    BY <1>1, <2>2 DEF ClaimExpires, Row
  <2>3. CASE \A s \in Sweepers : ~SweepApply(s)
    BY <1>6, <2>1, <2>2, <2>3 DEF Next, vars, WorkerStep, SweepStep, Receive, Ack, Crash, Execute,
       ClaimRefused, ClaimUnresolved, Submit, Poll, ProviderDecides, FinalizeRefused,
       UnavailableSkipped, SweepRead, SweepReconcile, SweepNext, SweepAborts
  <2> QED BY <1>5, <2>3
<1> QED BY <1>2, <1>3, <1>4, <1>6

\* Every status change follows ALLOWED_TRANSITIONS, the assignment of
\* status_first_recovery that bypasses transition_to included.
THEOREM MovesAllowed == Spec => StatusMovesAllowed
<1>1. IInv /\ [Next]_vars =>
        [\A a \in Attempts : row'[a].status # row[a].status =>
            row'[a].status \in ALLOWED_TRANSITIONS[row[a].status]]_vars
  BY StatusStep
<1> QED BY <1>1, Invariance, PTL DEF Spec, StatusMovesAllowed

LEMMA EvidenceStep ==
  ASSUME IInv, [Next]_vars, NEW o \in observations' \ observations, o.gen # 0
  PROVE  /\ o.gen = row[o.attempt].generation
         /\ \A p \in observations : p.attempt = o.attempt => p.gen < o.gen
<1>1. PICK w \in Workers : FinalizeClaimedResult(w)
  <2>1. ASSUME NEW w \in Workers, UnavailableRecorded(w) PROVE FALSE
    BY <2>1 DEF UnavailableRecorded, RecordEvidence, Observation
  <2> QED BY <2>1 DEF Next, vars, WorkerStep, SweepStep, Receive, Ack, Crash, Execute, StatusFirst,
       ClaimRefused, ClaimUnresolved, ClaimGranted, ClaimExpires, Submit, Poll, ProviderDecides,
       FinalizeRefused, UnavailableSkipped, SweepRead, SweepReconcile, SweepNext, SweepApply,
       SweepAborts
<1> DEFINE a == worker[w].attempt
           g == worker[w].gen
<1>2. o.attempt = a /\ o.gen = g
  BY <1>1 DEF FinalizeClaimedResult, RecordEvidence, Observation
<1>3. InCall(w) /\ a \in Attempts /\ g \in 1 .. MaxGen /\ row[a].generation = g
  BY <1>1 DEF FinalizeClaimedResult, InCall, IInv, TypeOK, OwnsClaim
<1>4. \A p \in observations : p.attempt = a => p.gen # g /\ p.gen <= g /\ p.gen \in 0 .. MaxGen
  BY <1>3 DEF IInv, ClaimInv, TypeOK
<1> HIDE DEF a, g
<1>5. \A p \in observations : p.attempt = a => p.gen < g
  BY <1>3, <1>4, MaxGenAssumption
<1> QED BY <1>2, <1>3, <1>5

\* A stale completion writes nothing: evidence arrives in claim order
\* (finalize_claimed_result's fence).
THEOREM EvidenceOrdered == Spec => EvidenceInClaimOrder
<1>1. IInv /\ [Next]_vars =>
        [\A o \in observations' \ observations :
           o.gen # 0 => /\ o.gen = row[o.attempt].generation
                        /\ \A p \in observations : p.attempt = o.attempt => p.gen < o.gen]_vars
  BY EvidenceStep
<1> QED BY <1>1, Invariance, PTL DEF Spec, EvidenceInClaimOrder

----------------------------------------------------------------------------
(* The runtime implements PaymentPromise.                                  *)

LEMMA PromiseInit == Init => Promise!Init
<1> SUFFICES ASSUME Init PROVE Promise!Init OBVIOUS
<1>1. \A a \in Attempts : row[a].status = "pending"
  BY DEF Init, NewRow
<1>2. Verdict = [a \in Attempts |-> "open"]
  BY <1>1 DEF Verdict, Final
<1> QED BY <1>2 DEF Init, Promise!Init

\* A step that moves the status of one attempt, and neither submits nor decides,
\* records the provider's decision or no verdict at all.
LEMMA VerdictStep ==
  ASSUME IInv, IInv', [Next]_vars, submits' = submits, ext' = ext, NEW a \in Attempts,
         \A b \in Attempts : b # a => row'[b].status = row[b].status
  PROVE  Promise!RecordVerdict(a) \/ UNCHANGED Promise!vars
<1>1. row[a].status \in Final => row'[a].status = row[a].status
  <2>1. row[a].status \in Final => ALLOWED_TRANSITIONS[row[a].status] = {}
    BY DEF Final, ALLOWED_TRANSITIONS, Status
  <2> QED BY <2>1, StatusStep
<1>2. row'[a].status \in Final => ext[a] = row'[a].status
  BY DEF IInv, FinalityIsTrue
<1>3. CASE row[a].status \in Final \/ row'[a].status \notin Final
  <2>1. Verdict' = Verdict BY <1>1, <1>3 DEF Verdict
  <2> QED BY <2>1 DEF Promise!vars
<1>4. CASE row[a].status \notin Final /\ row'[a].status \in Final
  <2>1. Verdict[a] = "open" BY <1>4 DEF Verdict
  <2>2. Verdict' = [Verdict EXCEPT ![a] = ext[a]] BY <1>2, <1>4 DEF Verdict
  <2> QED BY <1>2, <1>4, <2>1, <2>2 DEF Promise!RecordVerdict, Promise!Decision, Final
<1> QED BY <1>3, <1>4

LEMMA SubmitKeepsPromise ==
  ASSUME IInv, NEW w \in Workers, Submit(w)
  PROVE  Promise!SubmitPayment(worker[w].attempt)
<1> DEFINE a == worker[w].attempt
<1>1. a \in Attempts /\ submits[a] = 0
  BY DEF Submit, IInv, TypeOK, SubmitInv, Submitting
<1>2. submits' = [submits EXCEPT ![a] = 1]
  BY <1>1 DEF Submit
<1>3. Verdict' = Verdict BY DEF Submit, Verdict
<1>4. PICK x \in (IF ext[a] = "none" THEN {"none", "pending"} \cup Final ELSE {ext[a]}) :
        ext' = [ext EXCEPT ![a] = x]
  BY DEF Submit
<1>5. \/ ext' = ext
      \/ ext[a] = "none" /\ \E y \in {"pending"} \cup Promise!Decision :
                              ext' = [ext EXCEPT ![a] = y]
  <2>1. CASE x = ext[a] BY <1>4, <2>1 DEF IInv, TypeOK
  <2>2. CASE x # ext[a] BY <1>4, <2>2 DEF Promise!Decision, Final
  <2> QED BY <2>1, <2>2
<1> HIDE DEF a
<1>6. Promise!SubmitPayment(a)
  BY <1>1, <1>2, <1>3, <1>5 DEF Promise!SubmitPayment
<1> QED BY <1>6 DEF a

\* At most one attempt's status moves in a step of the runtime.
LEMMA OneStatusMoves ==
  ASSUME IInv, [Next]_vars, NEW a \in Attempts, NEW b \in Attempts,
         row'[a].status # row[a].status, row'[b].status # row[b].status
  PROVE  a = b
<1>1. row \in [Attempts -> Row] BY DEF IInv, TypeOK
<1>2. CASE \E w \in Workers : StatusFirst(w) \/ FinalizeClaimedResult(w) \/ UnavailableRecorded(w)
  BY <1>1, <1>2 DEF StatusFirst, FinalizeClaimedResult, UnavailableRecorded
<1>3. CASE \E s \in Sweepers : SweepApply(s)
  BY <1>1, <1>3 DEF SweepApply
<1>4. CASE \E w \in Workers : ClaimGranted(w)
  BY <1>1, <1>4 DEF ClaimGranted
<1>5. CASE \E c \in Attempts : ClaimExpires(c)
  BY <1>1, <1>5 DEF ClaimExpires
<1>6. CASE /\ \A w \in Workers : ~StatusFirst(w) /\ ~FinalizeClaimedResult(w)
                               /\ ~UnavailableRecorded(w) /\ ~ClaimGranted(w)
           /\ \A s \in Sweepers : ~SweepApply(s)
           /\ \A c \in Attempts : ~ClaimExpires(c)
  BY <1>6 DEF Next, vars, WorkerStep, SweepStep, Receive, Ack, Crash, Execute, ClaimRefused,
     ClaimUnresolved, Submit, Poll, ProviderDecides, FinalizeRefused, UnavailableSkipped,
     SweepRead, SweepReconcile, SweepNext, SweepAborts
<1> QED BY <1>2, <1>3, <1>4, <1>5, <1>6

LEMMA PromiseStep ==
  ASSUME IInv, IInv', [Next]_vars PROVE [Promise!Next]_(Promise!vars)
<1>1. ASSUME NEW w \in Workers, Submit(w) PROVE Promise!Next
  <2>1. worker[w].attempt \in Attempts BY <1>1 DEF Submit, IInv, TypeOK
  <2> QED BY <1>1, <2>1, SubmitKeepsPromise DEF Promise!Next
<1>2. ASSUME NEW a \in Attempts, ProviderDecides(a) PROVE Promise!Next
  <2>1. Verdict' = Verdict BY <1>2 DEF ProviderDecides, Verdict
  <2>2. submits' = submits /\ ext[a] = "pending"
        /\ \E x \in Final : ext' = [ext EXCEPT ![a] = x]
    BY <1>2 DEF ProviderDecides
  <2>3. UNCHANGED <<submits, Verdict>> BY <2>1, <2>2
  <2>4. Promise!Decide(a)
    BY <2>2, <2>3 DEF Promise!Decide, Promise!Decision, Final
  <2> QED BY <2>4 DEF Promise!Next
<1>3. CASE /\ \A w \in Workers : ~Submit(w)
           /\ \A a \in Attempts : ~ProviderDecides(a)
  <2>1. submits' = submits /\ ext' = ext
    BY <1>3 DEF Next, vars, WorkerStep, SweepStep, Receive, Ack, Crash, Execute, StatusFirst,
       ClaimRefused, ClaimUnresolved, ClaimGranted, ClaimExpires, Poll, FinalizeRefused,
       FinalizeClaimedResult, UnavailableSkipped, UnavailableRecorded, SweepRead,
       SweepReconcile, SweepNext, SweepApply, SweepAborts
  <2>2. CASE \A b \in Attempts : row'[b].status = row[b].status
    <3>1. Verdict' = Verdict BY <2>2 DEF Verdict
    <3> QED BY <2>1, <3>1 DEF Promise!vars
  <2>3. ASSUME NEW a \in Attempts, row'[a].status # row[a].status
        PROVE  [Promise!Next]_(Promise!vars)
    <3>1. \A b \in Attempts : b # a => row'[b].status = row[b].status
      BY <2>3, OneStatusMoves
    <3> QED BY <2>1, <3>1, VerdictStep DEF Promise!Next
  <2> QED BY <2>2, <2>3
<1> QED BY <1>1, <1>2, <1>3

\* The runtime implements PaymentPromise: whatever workers, claims, sweeps and
\* messages do, one submit, one decision, and one verdict that stays.
THEOREM Refinement == Spec => KeepsPromise
<1>1. IInv /\ IInv' /\ [Next]_vars => [Promise!Next]_(Promise!vars)
  BY PromiseStep
<1>2. Spec => Promise!Init /\ [][Promise!Next]_(Promise!vars)
  BY <1>1, PromiseInit, Invariance, PTL DEF Spec
<1> QED BY <1>2 DEF KeepsPromise, Promise!Spec
=============================================================================
