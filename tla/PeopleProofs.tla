----------------------------- MODULE PeopleProofs -----------------------------
(***************************************************************************)
(* Proofs about consent and about volunteers: a consent history has        *)
(* exactly one current record and every answer was true at some moment of  *)
(* its request; an archive is served once and is there until it is; the    *)
(* hours of a volunteer add up and their milestones are not missed; a      *)
(* cancelled shift is empty, its places are shared and its waitlist is     *)
(* served in order.                                                        *)
(***************************************************************************)
EXTENDS Consent, ConsentExport, VolunteerHours, VolunteerShifts, FiniteSetTheorems, TLAPS

Gone == {i \in Rec : record[i].status = "erased"}

GrantPcs == {"look", "relook", "archive", "rearchive", "insert", "winner", "rewinner"}
WithdrawPcs == {"find", "refind"}
ErasePcs == {"collect", "delete"}
Words == {"none", "granted", "withdrawn"}
Request == [op: {"none", "grant", "withdraw", "erase"},
            pc: {"idle", "commit"} \cup GrantPcs \cup WithdrawPcs \cup ErasePcs,
            rev: Revisions \cup {NoRec}, held: SUBSET Rec, made: Rec \cup {NoRec},
            target: SUBSET Rec, saw: SUBSET Words, known: SUBSET Rec,
            answer: Words \cup {"erased", "refused", "error"}]

----------------------------------------------------------------------------
(* The inductive invariant.  Of the rows it speaks only through Live,      *)
(* Current, Absent and Gone.                                               *)

\* At most one record is current, and one is if there is any.
Single ==
  /\ \A i, j \in Current : i = j
  /\ Live # {} => Current # {}

\* No row is locked twice, and no two rows are inserted at once.
Apart(x, y) == x.held \cap y.held = {} /\ (x.made = NoRec \/ y.made = NoRec)

\* The statement a request is at belongs to its operation.
InOrder(x) ==
  /\ x.pc \in GrantPcs => x.op = "grant"
  /\ x.pc \in WithdrawPcs => x.op = "withdraw"
  /\ x.pc \in ErasePcs => x.op = "erase"
  /\ x.pc = "idle" <=> x.op = "none"

\* What a transaction has locked and inserted.
Locking(x) ==
  /\ x.op = "none" => x.held = {}
  /\ x.op \in {"grant", "withdraw"} => x.held \subseteq Current
  /\ x.op = "erase" => x.held \subseteq Live
  /\ x.target \cap Absent = {}
  /\ x.op = "grant" /\ x.pc = "commit" => x.made # NoRec
  /\ x.made # NoRec => /\ x.op = "grant" /\ x.pc = "commit"
                       /\ x.made \in Absent /\ Current \subseteq x.held
  /\ x.pc \in {"winner", "rewinner"} => x.held = {}
  /\ x.op = "withdraw" /\ x.pc = "commit" => x.held # {}

\* An erasure takes the whole history or a part that is past.
Whole(set) == Live \subseteq set \/ Current \cap set = {}

Erasing(x) ==
  /\ x.pc = "delete" => Whole(x.target) /\ x.known \subseteq x.target \cup Gone
  /\ x.op = "erase" /\ x.pc = "commit" => Whole(x.held) /\ x.known \subseteq x.held \cup Gone
  /\ x.op = "erase" => x.known \subseteq Live \cup Gone

\* A grant that lost the insertion has seen a grant succeed.
Saws(x) == "granted" \in x.saw \/ Current = {}

Seeing(x) ==
  /\ x.pc \in {"insert", "winner", "rewinner"} /\ x.held = {} => Saws(x)
  /\ x.pc = "rearchive" /\ Current \cap x.target = {} => Saws(x)

Sound(x) == InOrder(x) /\ Locking(x) /\ Erasing(x) /\ Seeing(x)

Typed == record \in [Rec -> Row] /\ request \in [Requests -> Request]

Inv ==
  /\ Typed
  /\ Single
  /\ \A r \in Requests : Sound(request[r])
  /\ \A r, q \in Requests : r # q => Apart(request[r], request[q])

----------------------------------------------------------------------------
\* The rows are of four kinds.
LEMMA Kinds ==
  ASSUME Typed
  PROVE  /\ Current \subseteq Live /\ Live \subseteq Rec
         /\ Live \cap Absent = {} /\ Live \cap Gone = {} /\ Absent \cap Gone = {}
         /\ Rec \subseteq Live \cup Absent \cup Gone
         /\ NoRec \notin Rec
         /\ Consents \in SUBSET Words
BY DEF Typed, Current, Live, Absent, Gone, Row, Rec, NoRec, Consents, Words

\* The sets of rows, and what a reader is told, stay if the rows stay.
LEMMA SameRows ==
  ASSUME UNCHANGED record
  PROVE  UNCHANGED <<Live, Current, Absent, Gone, Consents>>
<1>1. UNCHANGED <<Live, Current, Absent, Gone>>
  BY DEF Live, Current, Absent, Gone
<1>2. UNCHANGED Consents
  BY <1>1 DEF Consents
<1> QED BY <1>1, <1>2

\* A step of one request that writes nothing yet keeps the invariant if the request
\* itself stays sound and apart from the others.
LEMMA LocalStep ==
  ASSUME Inv, NEW r \in Requests, UNCHANGED record,
         request' \in [Requests -> Request],
         \A q \in Requests \ {r} : request'[q] = request[q],
         Sound(request'[r]), \A q \in Requests \ {r} : Apart(request'[r], request[q])
  PROVE  Inv'
<1>1. UNCHANGED <<Live, Current, Absent, Gone>>
  BY SameRows
<1>2. Typed' /\ Single'
  BY <1>1 DEF Inv, Typed, Single
<1>3. ASSUME NEW q \in Requests PROVE Sound(request[q])'
  <2>1. Sound(request'[q])
    BY DEF Inv
  <2> QED BY <2>1, <1>1 DEF Sound, InOrder, Locking, Erasing, Seeing, Whole, Saws
<1>4. ASSUME NEW p \in Requests, NEW q \in Requests, p # q
      PROVE  Apart(request[p], request[q])'
  BY <1>4 DEF Inv, Apart
<1> QED BY <1>2, <1>3, <1>4 DEF Inv

\* A request that ends without effect.
LEMMA EndedIsSound ==
  ASSUME Inv, NEW r \in Requests, NEW a \in Words \cup {"erased", "refused", "error"}
  PROVE  /\ [Idle EXCEPT !.answer = a] \in Request
         /\ Sound([Idle EXCEPT !.answer = a])
         /\ \A q \in Requests \ {r} : Apart([Idle EXCEPT !.answer = a], request[q])
BY DEF Idle, Request, NoRec, Sound, InOrder, Locking, Erasing, Seeing, GrantPcs, WithdrawPcs,
       ErasePcs, Apart, Words

LEMMA RollBackKeeps ==
  ASSUME Inv, NEW r \in Requests, NEW a \in Words \cup {"erased", "refused", "error"},
         RollBack(r, a)
  PROVE  Inv'
<1> DEFINE x == [Idle EXCEPT !.answer = a]
<1>1. x \in Request /\ Sound(x) /\ \A q \in Requests \ {r} : Apart(x, request[q])
  BY EndedIsSound
<1>2. UNCHANGED record /\ request' = [request EXCEPT ![r] = x]
  BY DEF RollBack
<1> HIDE DEF x
<1>3. request' \in [Requests -> Request] /\ request'[r] = x
  BY <1>1, <1>2 DEF Inv, Typed
<1>4. \A q \in Requests \ {r} : request'[q] = request[q]
  BY <1>2
<1> QED BY <1>1, <1>2, <1>3, <1>4, LocalStep

----------------------------------------------------------------------------
(* What a commit does to the rows.                                         *)

LEMMA GrantEffect ==
  ASSUME Inv, NEW r \in Requests, CommitGrant(r)
  PROVE  /\ record' \in [Rec -> Row]
         /\ request[r].made \in Absent
         /\ Current' = {request[r].made}
         /\ Live' = Live \cup {request[r].made}
         /\ Absent' = Absent \ {request[r].made}
         /\ Gone' = Gone
         /\ Consents' = {"granted"}
<1> DEFINE m == request[r].made
<1>1. m \in Absent /\ Current \subseteq request[r].held /\ request[r].held \subseteq Current
  BY DEF Inv, Sound, Locking, CommitGrant
<1>2. request[r] \in Request /\ record \in [Rec -> Row] /\ m \in Rec
  BY <1>1 DEF Inv, Typed, Absent
<1>3. record' = [i \in Rec |-> IF i = m THEN NewRow(r)
                               ELSE IF i \in request[r].held
                               THEN [record[i] EXCEPT !.current = FALSE, !.rev = NoRec]
                               ELSE record[i]]
  BY DEF CommitGrant, Commit, AfterGrant
<1>4. NewRow(r) \in Row /\ NewRow(r).status = "granted" /\ NewRow(r).current
  BY <1>2 DEF NewRow, Row, Request
<1>5. \A i \in Rec : record[i] \in Row
                     /\ [record[i] EXCEPT !.current = FALSE, !.rev = NoRec] \in Row
                     /\ [record[i] EXCEPT !.current = FALSE, !.rev = NoRec].status = record[i].status
                     /\ ~[record[i] EXCEPT !.current = FALSE, !.rev = NoRec].current
  BY <1>2 DEF Row
<1>6. record' \in [Rec -> Row]
  BY <1>3, <1>4, <1>5
<1> HIDE DEF m
<1>7. /\ record'[m].status = "granted" /\ record'[m].current
      /\ \A i \in Rec \ {m} : /\ record'[i].status = record[i].status
                              /\ record'[i].current <=> record[i].current /\ i \notin request[r].held
  BY <1>2, <1>3, <1>4, <1>5
<1>8. Live' = Live \cup {m} /\ Absent' = Absent \ {m} /\ Gone' = Gone
  BY <1>1, <1>2, <1>7 DEF Live, Absent, Gone
<1>9. Current' = {m}
  BY <1>1, <1>2, <1>7 DEF Current, Live, Absent
<1>10. Consents' = {"granted"}
  BY <1>7, <1>9 DEF Consents
<1> QED BY <1>1, <1>6, <1>8, <1>9, <1>10 DEF m

LEMMA WithdrawEffect ==
  ASSUME Inv, NEW r \in Requests, CommitWithdraw(r)
  PROVE  /\ record' \in [Rec -> Row]
         /\ UNCHANGED <<Live, Current, Absent, Gone>>
         /\ "withdrawn" \in Consents'
<1>1. request[r].held \subseteq Current /\ request[r].held # {}
  BY DEF Inv, Sound, Locking, CommitWithdraw
<1>2. record \in [Rec -> Row]
  BY DEF Inv, Typed
<1>3. record' = [i \in Rec |-> IF i \in request[r].held
                               THEN [record[i] EXCEPT !.status = "withdrawn"] ELSE record[i]]
  BY DEF CommitWithdraw, Commit
<1>4. \A i \in Rec : record[i] \in Row
                     /\ [record[i] EXCEPT !.status = "withdrawn"] \in Row
                     /\ [record[i] EXCEPT !.status = "withdrawn"].status = "withdrawn"
                     /\ [record[i] EXCEPT !.status = "withdrawn"].current = record[i].current
  BY <1>2 DEF Row
<1>5. record' \in [Rec -> Row]
  BY <1>3, <1>4
<1>6. \A i \in Rec : /\ record'[i].status = IF i \in request[r].held THEN "withdrawn"
                                            ELSE record[i].status
                     /\ record'[i].current = record[i].current
  BY <1>3, <1>4
<1>7. UNCHANGED <<Live, Absent, Gone>>
  BY <1>1, <1>6 DEF Live, Absent, Gone, Current
<1>8. UNCHANGED Current
  BY <1>6, <1>7 DEF Current, Live
<1>9. PICK i \in request[r].held : i \in Current' /\ record'[i].status = "withdrawn"
  BY <1>1, <1>6, <1>8 DEF Current, Live
<1>10. "withdrawn" \in Consents'
  BY <1>9 DEF Consents
<1> QED BY <1>5, <1>7, <1>8, <1>10

LEMMA EraseEffect ==
  ASSUME Inv, NEW r \in Requests, CommitErase(r)
  PROVE  /\ record' \in [Rec -> Row]
         /\ Current' = Current \ request[r].held
         /\ Live' = Live \ request[r].held
         /\ Absent' = Absent
         /\ Gone' = Gone \cup request[r].held
<1>1. request[r].held \subseteq Live
  BY DEF Inv, Sound, Locking, CommitErase
<1>2. record \in [Rec -> Row] /\ request[r] \in Request
  BY DEF Inv, Typed
<1>3. record' = [i \in Rec |-> Erased(r, i)]
  BY DEF CommitErase, Commit
<1>4. record' \in [Rec -> Row]
  BY <1>2, <1>3 DEF Erased, Row
<1>5. \A i \in Rec : /\ record'[i].status = IF i \in request[r].held THEN "erased"
                                            ELSE record[i].status
                     /\ record'[i].current <=> record[i].current /\ i \notin request[r].held
  <2>1. SUFFICES ASSUME NEW i \in Rec
                 PROVE  /\ record'[i].status = IF i \in request[r].held THEN "erased"
                                               ELSE record[i].status
                        /\ record'[i].current <=> record[i].current /\ i \notin request[r].held
    OBVIOUS
  <2>2. record'[i] = Erased(r, i) /\ record[i] \in Row
    BY <1>2, <1>3
  <2>3. CASE i \in request[r].held
    BY <2>2, <2>3 DEF Erased, Row
  <2>4. CASE i \notin request[r].held
    BY <2>2, <2>4 DEF Erased
  <2> QED BY <2>3, <2>4
<1>6. Live' = Live \ request[r].held /\ Absent' = Absent /\ Gone' = Gone \cup request[r].held
  BY <1>1, <1>5 DEF Live, Absent, Gone
<1>7. Current' = Current \ request[r].held
  BY <1>5, <1>6 DEF Current, Live
<1> QED BY <1>4, <1>6, <1>7

----------------------------------------------------------------------------
(* What a commit does to the others.                                       *)

\* They are as they were, and may have seen more.
LEMMA OthersSee ==
  ASSUME Inv, NEW r \in Requests, NEW STATE written, NEW a \in Words \cup {"erased", "refused", "error"},
         Commit(r, written, a), record' \in [Rec -> Row]
  PROVE  /\ request'[r] = [Idle EXCEPT !.answer = a]
         /\ request' \in [Requests -> Request]
         /\ \A q \in Requests \ {r} :
              /\ request'[q].op = request[q].op /\ request'[q].pc = request[q].pc
              /\ request'[q].held = request[q].held /\ request'[q].made = request[q].made
              /\ request'[q].target = request[q].target /\ request'[q].known = request[q].known
              /\ request'[q].answer = request[q].answer
              /\ request'[q].saw = IF request[q].op \in {"grant", "withdraw"}
                                   THEN request[q].saw \cup Consents' ELSE request[q].saw
<1>1. Consents' \in SUBSET Words
  BY DEF Consents, Current, Live, Words, Row
<1>2. request' = [q \in Requests |->
         IF q = r THEN [Idle EXCEPT !.answer = a]
         ELSE IF request[q].op \in {"grant", "withdraw"}
         THEN [request[q] EXCEPT !.saw = @ \cup Consents']
         ELSE request[q]]
  BY DEF Commit
<1>3. request \in [Requests -> Request]
  BY DEF Inv, Typed
<1>4. [Idle EXCEPT !.answer = a] \in Request
  BY EndedIsSound
<1> DEFINE seen(q) == [request[q] EXCEPT !.saw = @ \cup Consents']
<1>5. ASSUME NEW q \in Requests
      PROVE  /\ seen(q) \in Request
             /\ seen(q).op = request[q].op /\ seen(q).pc = request[q].pc
             /\ seen(q).held = request[q].held /\ seen(q).made = request[q].made
             /\ seen(q).target = request[q].target /\ seen(q).known = request[q].known
             /\ seen(q).answer = request[q].answer
             /\ seen(q).saw = request[q].saw \cup Consents'
  BY <1>1, <1>3 DEF Request
<1>6. request' = [q \in Requests |->
         IF q = r THEN [Idle EXCEPT !.answer = a]
         ELSE IF request[q].op \in {"grant", "withdraw"} THEN seen(q) ELSE request[q]]
  BY <1>2
<1> HIDE DEF seen
<1>7. request' \in [Requests -> Request]
  BY <1>3, <1>4, <1>5, <1>6
<1>8. request'[r] = [Idle EXCEPT !.answer = a]
  BY <1>6
<1>9. ASSUME NEW q \in Requests \ {r}
      PROVE  /\ request'[q].op = request[q].op /\ request'[q].pc = request[q].pc
             /\ request'[q].held = request[q].held /\ request'[q].made = request[q].made
             /\ request'[q].target = request[q].target /\ request'[q].known = request[q].known
             /\ request'[q].answer = request[q].answer
             /\ request'[q].saw = IF request[q].op \in {"grant", "withdraw"}
                                  THEN request[q].saw \cup Consents' ELSE request[q].saw
  <2>1. CASE request[q].op \in {"grant", "withdraw"}
    <3>1. request'[q] = seen(q)
      BY <1>6, <2>1
    <3> QED BY <3>1, <2>1, <1>5
  <2>2. CASE request[q].op \notin {"grant", "withdraw"}
    <3>1. request'[q] = request[q]
      BY <1>6, <2>2
    <3> QED BY <3>1, <2>2
  <2> QED BY <2>1, <2>2
<1> QED BY <1>7, <1>8, <1>9

\* A commit keeps the invariant if its rows do and the others stay sound.
LEMMA CommitStep ==
  ASSUME Inv, NEW r \in Requests, NEW STATE written, NEW a \in Words \cup {"erased", "refused", "error"},
         Commit(r, written, a), record' \in [Rec -> Row], Single',
         \A q \in Requests \ {r} : Sound(request[q])'
  PROVE  Inv'
<1>0. /\ request'[r] = [Idle EXCEPT !.answer = a]
      /\ request' \in [Requests -> Request]
      /\ \A q \in Requests \ {r} : /\ request'[q].held = request[q].held
                                   /\ request'[q].made = request[q].made
  BY OthersSee
<1>1. Typed'
  BY <1>0 DEF Typed
<1>2. Sound(request[r])'
  BY <1>0 DEF Idle, NoRec, Sound, InOrder, Locking, Erasing, Seeing, GrantPcs, WithdrawPcs,
                   ErasePcs
<1>3. ASSUME NEW p \in Requests, NEW q \in Requests, p # q
      PROVE  Apart(request[p], request[q])'
  <2>1. CASE p = r \/ q = r
    BY <2>1, <1>0 DEF Idle, Apart
  <2>2. CASE p # r /\ q # r
    BY <2>2, <1>0, <1>3 DEF Inv, Apart
  <2> QED BY <2>1, <2>2
<1> QED BY <1>1, <1>2, <1>3 DEF Inv

LEMMA GrantKeeps ==
  ASSUME Inv, NEW r \in Requests, CommitGrant(r)
  PROVE  Inv'
<1> DEFINE m == request[r].made
<1>1. /\ record' \in [Rec -> Row] /\ m \in Absent /\ Current' = {m} /\ Live' = Live \cup {m}
      /\ Absent' = Absent \ {m} /\ Gone' = Gone /\ Consents' = {"granted"}
  BY GrantEffect
<1>2. Commit(r, AfterGrant(r), "granted") /\ "granted" \in Words
  BY DEF CommitGrant, Words
<1>3. Current \subseteq request[r].held /\ m # NoRec
  BY DEF Inv, Sound, Locking, CommitGrant
<1>4. Single'
  BY <1>1 DEF Single
<1>5. Live \cap Absent = {} /\ Gone \cap Absent = {} /\ Current \subseteq Live
  BY Kinds DEF Inv
<1>6. ASSUME NEW q \in Requests \ {r} PROVE Sound(request[q])'
  <2>1. /\ Sound(request[q]) /\ request[r].held \cap request[q].held = {}
        /\ request[q].made = NoRec
    BY <1>3 DEF Inv, Apart
  <2>2. /\ request'[q].op = request[q].op /\ request'[q].pc = request[q].pc
        /\ request'[q].held = request[q].held /\ request'[q].made = request[q].made
        /\ request'[q].target = request[q].target /\ request'[q].known = request[q].known
        /\ request[q].op \in {"grant", "withdraw"} => "granted" \in request'[q].saw
    BY <1>1, <1>2, OthersSee
  <2>3. InOrder(request[q])'
    BY <2>1, <2>2 DEF Sound, InOrder
  <2>4. Locking(request[q])'
    BY <1>1, <1>3, <2>1, <2>2 DEF Sound, Locking
  <2>5. Erasing(request[q])'
    <3>1. request[q].pc = "delete" => m \notin request[q].target
      BY <1>1, <2>1 DEF Sound, Locking
    <3>2. request[q].op = "erase" => m \notin request[q].held
      BY <1>1, <1>5, <2>1 DEF Sound, Locking
    <3> QED BY <1>1, <2>1, <2>2, <3>1, <3>2 DEF Sound, Erasing, Whole
  <2>6. Seeing(request[q])'
    BY <2>1, <2>2 DEF Sound, InOrder, Seeing, Saws, GrantPcs
  <2> QED BY <2>3, <2>4, <2>5, <2>6 DEF Sound
<1> HIDE DEF m
<1> QED BY <1>1, <1>2, <1>4, <1>6, CommitStep

LEMMA WithdrawKeeps ==
  ASSUME Inv, NEW r \in Requests, CommitWithdraw(r)
  PROVE  Inv'
<1> DEFINE written == [i \in Rec |-> IF i \in request[r].held
                                    THEN [record[i] EXCEPT !.status = "withdrawn"] ELSE record[i]]
<1>1. record' \in [Rec -> Row] /\ UNCHANGED <<Live, Current, Absent, Gone>>
  BY WithdrawEffect
<1>2. Commit(r, written, "withdrawn") /\ "withdrawn" \in Words
  BY DEF CommitWithdraw, Words
<1> HIDE DEF written
<1>3. Single'
  BY <1>1 DEF Single, Inv
<1>4. ASSUME NEW q \in Requests \ {r} PROVE Sound(request[q])'
  <2>1. Sound(request[q])
    BY DEF Inv
  <2>2. /\ request'[q].op = request[q].op /\ request'[q].pc = request[q].pc
        /\ request'[q].held = request[q].held /\ request'[q].made = request[q].made
        /\ request'[q].target = request[q].target /\ request'[q].known = request[q].known
        /\ "granted" \in request[q].saw => "granted" \in request'[q].saw
    BY <1>1, <1>2, OthersSee
  <2> QED BY <1>1, <2>1, <2>2 DEF Sound, InOrder, Locking, Erasing, Seeing, Whole, Saws
<1> QED BY <1>1, <1>2, <1>3, <1>4, CommitStep

LEMMA EraseKeeps ==
  ASSUME Inv, NEW r \in Requests, CommitErase(r)
  PROVE  Inv'
<1> DEFINE written == [i \in Rec |-> Erased(r, i)]
           h == request[r].held
<1>1. /\ record' \in [Rec -> Row] /\ Current' = Current \ h /\ Live' = Live \ h
      /\ Absent' = Absent /\ Gone' = Gone \cup h
  BY EraseEffect
<1>2. Commit(r, written, "erased")
  BY DEF CommitErase
<1>3. Sound(request[r]) /\ request[r].op = "erase" /\ request[r].pc = "commit" /\ Single
  BY DEF Inv, CommitErase
<1>4. Whole(h)
  BY <1>3 DEF Sound, Erasing
<1> HIDE DEF written
<1>5. Single'
  BY <1>1, <1>3, <1>4 DEF Single, Whole
<1>6. ASSUME NEW q \in Requests \ {r} PROVE Sound(request[q])'
  <2>1. Sound(request[q]) /\ h \cap request[q].held = {}
    BY DEF Inv, Apart
  <2>2. /\ request'[q].op = request[q].op /\ request'[q].pc = request[q].pc
        /\ request'[q].held = request[q].held /\ request'[q].made = request[q].made
        /\ request'[q].target = request[q].target /\ request'[q].known = request[q].known
        /\ "granted" \in request[q].saw => "granted" \in request'[q].saw
    BY <1>1, <1>2, OthersSee
  <2>3. InOrder(request[q])'
    BY <2>1, <2>2 DEF Sound, InOrder
  <2>4. Locking(request[q])'
    BY <1>1, <2>1, <2>2 DEF Sound, Locking
  <2>5. Erasing(request[q])'
    BY <1>1, <2>1, <2>2 DEF Sound, Erasing, Whole
  <2>6. Seeing(request[q])'
    BY <1>1, <1>3, <2>1, <2>2 DEF Sound, Seeing, Saws, Single
  <2> QED BY <2>3, <2>4, <2>5, <2>6 DEF Sound
<1> HIDE DEF h
<1> QED BY <1>1, <1>2, <1>5, <1>6, CommitStep

----------------------------------------------------------------------------
(* The steps of a transaction before its end.                              *)

\* Goto changes no more than it says.
LEMMA Goes ==
  ASSUME Inv, NEW r \in Requests,
         NEW STATE p, p \in {"commit"} \cup GrantPcs \cup WithdrawPcs \cup ErasePcs,
         NEW STATE t, t \in SUBSET Rec, Goto(r, p, t)
  PROVE  /\ UNCHANGED record
         /\ request' \in [Requests -> Request]
         /\ \A q \in Requests \ {r} : request'[q] = request[q]
         /\ request'[r].op = request[r].op /\ request'[r].pc = p
         /\ request'[r].target = t
         /\ request'[r].held = request[r].held /\ request'[r].made = request[r].made
         /\ request'[r].saw = request[r].saw /\ request'[r].known = request[r].known
<1>1. \A q \in Requests : request[q] \in Request
  BY DEF Inv, Typed
<1> DEFINE y == [request[r] EXCEPT !.pc = p, !.target = t]
<1>2. /\ y \in Request
      /\ y.op = request[r].op /\ y.pc = p /\ y.target = t
      /\ y.held = request[r].held /\ y.made = request[r].made
      /\ y.saw = request[r].saw /\ y.known = request[r].known
  BY <1>1 DEF Request
<1>3. request' = [q \in Requests |-> IF q = r THEN y ELSE request[q]]
  BY DEF Goto, Inv, Typed
<1>4. UNCHANGED record
  BY DEF Goto
<1> HIDE DEF y
<1> QED BY <1>1, <1>2, <1>3, <1>4

\* A request that goes on keeps the invariant if it stays sound.
LEMMA GoesOn ==
  ASSUME Inv, NEW r \in Requests,
         NEW STATE p, p \in {"commit"} \cup GrantPcs \cup WithdrawPcs \cup ErasePcs,
         NEW STATE t, t \in SUBSET Rec, Goto(r, p, t), Sound(request'[r])
  PROVE  Inv'
<1>1. \A q \in Requests \ {r} : Apart(request'[r], request[q])
  BY Goes DEF Inv, Apart
<1>2. /\ UNCHANGED record
      /\ request' \in [Requests -> Request]
      /\ \A q \in Requests \ {r} : request'[q] = request[q]
  BY Goes
<1> QED BY <1>1, <1>2, LocalStep

LEMMA LookForGrantKeeps ==
  ASSUME Inv, NEW r \in Requests, LookForGrant(r)
  PROVE  Inv'
<1>1. Sound(request[r]) /\ request[r].pc = "look"
  BY DEF Inv, LookForGrant
<1>2. Granted(r) \in SUBSET Rec /\ Granted(r) \cap Absent = {} /\ {} \in SUBSET Rec
  BY Kinds DEF Granted, Inv
<1>3. PICK p \in {"archive", "relook"}, t \in SUBSET Rec : Goto(r, p, t) /\ t \cap Absent = {}
  BY <1>2 DEF LookForGrant
<1>4. p \in {"commit"} \cup GrantPcs \cup WithdrawPcs \cup ErasePcs
  BY DEF GrantPcs
<1>5. /\ request'[r].op = request[r].op /\ request'[r].pc = p /\ request'[r].target = t
      /\ request'[r].held = request[r].held /\ request'[r].made = request[r].made
      /\ request'[r].saw = request[r].saw /\ request'[r].known = request[r].known
  BY <1>3, <1>4, Goes
<1>6. Sound(request'[r])
  BY <1>1, <1>3, <1>5 DEF Sound, InOrder, Locking, Erasing, Seeing, GrantPcs, WithdrawPcs, ErasePcs
<1> QED BY <1>3, <1>4, <1>6, GoesOn

LEMMA RelookForGrantKeeps ==
  ASSUME Inv, NEW r \in Requests, RelookForGrant(r)
  PROVE  Inv'
<1>1. Sound(request[r]) /\ request[r].pc = "relook"
  BY DEF Inv, RelookForGrant
<1>2. CASE RollBack(r, "granted")
  BY <1>2, RollBackKeeps DEF Words
<1>3. CASE Goto(r, "archive", {})
  <2>1. "archive" \in {"commit"} \cup GrantPcs \cup WithdrawPcs \cup ErasePcs /\ {} \in SUBSET Rec
    BY DEF GrantPcs
  <2>2. /\ request'[r].op = request[r].op /\ request'[r].pc = "archive" /\ request'[r].target = {}
        /\ request'[r].held = request[r].held /\ request'[r].made = request[r].made
        /\ request'[r].saw = request[r].saw /\ request'[r].known = request[r].known
    BY <1>3, <2>1, Goes
  <2>3. Sound(request'[r])
    BY <1>1, <2>2 DEF Sound, InOrder, Locking, Erasing, Seeing, GrantPcs, WithdrawPcs, ErasePcs
  <2> QED BY <1>3, <2>1, <2>3, GoesOn
<1> QED BY <1>2, <1>3 DEF RelookForGrant

LEMMA LookForCurrentKeeps ==
  ASSUME Inv, NEW r \in Requests, LookForCurrent(r)
  PROVE  Inv'
<1>1. Sound(request[r]) /\ request[r].pc = "archive"
  BY DEF Inv, LookForCurrent
<1>2. Current \in SUBSET Rec /\ Current \cap Absent = {}
  BY Kinds DEF Inv
<1> DEFINE p == IF Current = {} THEN "insert" ELSE "rearchive"
<1>3. p \in {"commit"} \cup GrantPcs \cup WithdrawPcs \cup ErasePcs
  BY DEF GrantPcs
<1>4. Goto(r, p, Current)
  BY DEF LookForCurrent
<1>5. p \in {"insert", "rearchive"} /\ (p = "insert" => Current = {})
  OBVIOUS
<1> HIDE DEF p
<1>6. /\ request'[r].op = request[r].op /\ request'[r].pc = p /\ request'[r].target = Current
      /\ request'[r].held = request[r].held /\ request'[r].made = request[r].made
      /\ request'[r].saw = request[r].saw /\ request'[r].known = request[r].known
  BY <1>2, <1>3, <1>4, Goes
<1>7. Sound(request'[r])
  BY <1>1, <1>2, <1>5, <1>6 DEF Sound, InOrder, Locking, Erasing, Seeing, Saws, GrantPcs, WithdrawPcs,
                         ErasePcs
<1> QED BY <1>2, <1>3, <1>4, <1>7, GoesOn

\* The current rows it waited for are the request's alone.
LEMMA ArchiveKeeps ==
  ASSUME Inv, NEW r \in Requests, Archive(r)
  PROVE  Inv'
<1> DEFINE h == request[r].target \cap Current
           y == [request[r] EXCEPT !.pc = "insert", !.target = {}, !.held = h]
<1>1. /\ Sound(request[r]) /\ request[r].pc = "rearchive" /\ request[r] \in Request
      /\ UNCHANGED record
  BY DEF Inv, Typed, Archive
<1>2. h \subseteq Current /\ h \in SUBSET Rec
  BY Kinds DEF Inv
<1>3. \A q \in Requests \ {r} : h \cap request[q].held = {}
  BY DEF Archive, LockedByOther
<1> HIDE DEF h
<1>4. /\ y \in Request
      /\ y.op = request[r].op /\ y.pc = "insert" /\ y.target = {} /\ y.held = h
      /\ y.made = request[r].made /\ y.saw = request[r].saw /\ y.known = request[r].known
  BY <1>1, <1>2 DEF Request, GrantPcs
<1>5. request' = [q \in Requests |-> IF q = r THEN y ELSE request[q]]
  BY DEF Archive, Inv, Typed, h
<1> HIDE DEF y
<1>6. /\ request' \in [Requests -> Request] /\ request'[r] = y
      /\ \A q \in Requests \ {r} : request'[q] = request[q]
  BY <1>4, <1>5 DEF Inv, Typed
<1>7. h = {} => Saws(request[r])
  BY <1>1 DEF Sound, Seeing, h
<1>8. Sound(y)
  BY <1>1, <1>2, <1>4, <1>7
     DEF Sound, InOrder, Locking, Erasing, Seeing, Saws, GrantPcs, WithdrawPcs, ErasePcs
<1>9. \A q \in Requests \ {r} : Apart(y, request[q])
  BY <1>1, <1>3, <1>4 DEF Apart, Sound, Locking
<1> QED BY <1>1, <1>6, <1>8, <1>9, LocalStep

\* The unique index lets one insertion through, when the current row is its own.
LEMMA InsertKeeps ==
  ASSUME Inv, NEW r \in Requests, Insert(r)
  PROVE  Inv'
<1>1. /\ Sound(request[r]) /\ request[r].pc = "insert" /\ request[r] \in Request
      /\ UNCHANGED record /\ Single
  BY DEF Inv, Typed, Insert
<1>2. request[r].op = "grant" /\ request[r].held \subseteq Current /\ request[r].made = NoRec
  BY <1>1 DEF Sound, InOrder, Locking, GrantPcs
<1>3. CASE CurrentTo(r) = {}
  <2> DEFINE y == [request[r] EXCEPT !.pc = "commit", !.made = Fresh]
  <2>1. Fresh \in Absent /\ Fresh \in Rec /\ Fresh # NoRec
    BY <1>3, Kinds DEF Insert, Fresh, Inv, Absent
  <2>2. Current \subseteq request[r].held
    BY <1>3 DEF CurrentTo
  <2>3. /\ y \in Request
        /\ y.op = request[r].op /\ y.pc = "commit" /\ y.target = request[r].target
        /\ y.held = request[r].held /\ y.made = Fresh
        /\ y.saw = request[r].saw /\ y.known = request[r].known
    BY <1>1, <2>1 DEF Request
  <2>4. request' = [q \in Requests |-> IF q = r THEN y ELSE request[q]]
    BY <1>3 DEF Insert, Inv, Typed
  <2> HIDE DEF y
  <2>5. /\ request' \in [Requests -> Request] /\ request'[r] = y
        /\ \A q \in Requests \ {r} : request'[q] = request[q]
    BY <2>3, <2>4 DEF Inv, Typed
  <2>6. Sound(y)
    BY <1>1, <1>2, <2>1, <2>2, <2>3
       DEF Sound, InOrder, Locking, Erasing, Seeing, GrantPcs, WithdrawPcs, ErasePcs
  <2>7. \A q \in Requests \ {r} : Apart(y, request[q])
    BY <2>3 DEF Apart, Inv, Insert, IndexIsBusy
  <2> QED BY <1>1, <2>5, <2>6, <2>7, LocalStep
<1>4. CASE CurrentTo(r) # {}
  <2> DEFINE y == [request[r] EXCEPT !.pc = "winner"]
  <2>1. request[r].held = {} /\ Current # {}
    BY <1>1, <1>2, <1>4 DEF CurrentTo, Single
  <2>2. /\ y \in Request
        /\ y.op = request[r].op /\ y.pc = "winner" /\ y.target = request[r].target
        /\ y.held = request[r].held /\ y.made = request[r].made
        /\ y.saw = request[r].saw /\ y.known = request[r].known
    BY <1>1 DEF Request, GrantPcs
  <2>3. request' = [q \in Requests |-> IF q = r THEN y ELSE request[q]]
    BY <1>4 DEF Insert, Inv, Typed
  <2> HIDE DEF y
  <2>4. /\ request' \in [Requests -> Request] /\ request'[r] = y
        /\ \A q \in Requests \ {r} : request'[q] = request[q]
    BY <2>2, <2>3 DEF Inv, Typed
  <2>5. Sound(y)
    BY <1>1, <1>2, <2>1, <2>2
       DEF Sound, InOrder, Locking, Erasing, Seeing, Saws, GrantPcs, WithdrawPcs, ErasePcs
  <2>6. \A q \in Requests \ {r} : Apart(y, request[q])
    BY <2>2 DEF Apart, Inv
  <2> QED BY <1>1, <2>4, <2>5, <2>6, LocalStep
<1> QED BY <1>3, <1>4

LEMMA LookForWinnerKeeps ==
  ASSUME Inv, NEW r \in Requests, LookForWinner(r)
  PROVE  Inv'
<1>1. Sound(request[r]) /\ request[r].pc = "winner"
  BY DEF Inv, LookForWinner
<1>2. CASE RollBack(r, "error")
  BY <1>2, RollBackKeeps
<1>3. CASE Goto(r, "rewinner", CurrentTo(r))
  <2>1. /\ "rewinner" \in {"commit"} \cup GrantPcs \cup WithdrawPcs \cup ErasePcs
        /\ CurrentTo(r) \in SUBSET Rec /\ CurrentTo(r) \cap Absent = {}
    BY Kinds DEF GrantPcs, CurrentTo, Inv
  <2>2. /\ request'[r].op = request[r].op /\ request'[r].pc = "rewinner"
        /\ request'[r].target = CurrentTo(r)
        /\ request'[r].held = request[r].held /\ request'[r].made = request[r].made
        /\ request'[r].saw = request[r].saw /\ request'[r].known = request[r].known
    BY <1>3, <2>1, Goes
  <2>3. Sound(request'[r])
    BY <1>1, <2>1, <2>2
       DEF Sound, InOrder, Locking, Erasing, Seeing, Saws, GrantPcs, WithdrawPcs, ErasePcs
  <2> QED BY <1>3, <2>1, <2>3, GoesOn
<1> QED BY <1>2, <1>3 DEF LookForWinner

\* The loser of an insertion has written nothing.
LEMMA WinnerEffect ==
  ASSUME Inv, NEW r \in Requests, request[r].pc = "rewinner", Commit(r, AfterGrant(r), "granted")
  PROVE  UNCHANGED record
<1>1. request[r].held = {} /\ request[r].made = NoRec
  BY DEF Inv, Sound, Locking
<1>2. record' = [i \in Rec |-> IF i = NoRec THEN NewRow(r) ELSE record[i]]
  BY <1>1 DEF Commit, AfterGrant
<1>3. NoRec \notin Rec /\ record \in [Rec -> Row]
  BY Kinds DEF Inv, Typed
<1> QED BY <1>2, <1>3

LEMMA TakeWinnerKeeps ==
  ASSUME Inv, NEW r \in Requests, TakeWinner(r)
  PROVE  Inv'
<1>1. CASE RollBack(r, "error")
  BY <1>1, RollBackKeeps
<1>2. CASE Commit(r, AfterGrant(r), "granted")
  <2>1. UNCHANGED record
    BY <1>2, WinnerEffect DEF TakeWinner
  <2>2. record' \in [Rec -> Row] /\ "granted" \in Words
    BY <2>1 DEF Inv, Typed, Words
  <2>3. UNCHANGED <<Live, Current, Absent, Gone>>
    BY <2>1, SameRows
  <2>4. Single'
    BY <2>3 DEF Single, Inv
  <2>5. ASSUME NEW q \in Requests \ {r} PROVE Sound(request[q])'
    <3>1. Sound(request[q])
      BY DEF Inv
    <3>2. /\ request'[q].op = request[q].op /\ request'[q].pc = request[q].pc
          /\ request'[q].held = request[q].held /\ request'[q].made = request[q].made
          /\ request'[q].target = request[q].target /\ request'[q].known = request[q].known
          /\ "granted" \in request[q].saw => "granted" \in request'[q].saw
      BY <1>2, <2>2, OthersSee
    <3> QED BY <2>3, <3>1, <3>2 DEF Sound, InOrder, Locking, Erasing, Seeing, Whole, Saws
  <2> QED BY <1>2, <2>2, <2>4, <2>5, CommitStep
<1> QED BY <1>1, <1>2 DEF TakeWinner

LEMMA FindKeeps ==
  ASSUME Inv, NEW r \in Requests, Find(r)
  PROVE  Inv'
<1>1. Sound(request[r]) /\ request[r].pc = "find"
  BY DEF Inv, Find
<1>2. CASE RollBack(r, "refused")
  BY <1>2, RollBackKeeps
<1>3. CASE Goto(r, "refind", Current)
  <2>1. /\ "refind" \in {"commit"} \cup GrantPcs \cup WithdrawPcs \cup ErasePcs
        /\ Current \in SUBSET Rec /\ Current \cap Absent = {}
    BY Kinds DEF WithdrawPcs, Inv
  <2>2. /\ request'[r].op = request[r].op /\ request'[r].pc = "refind"
        /\ request'[r].target = Current
        /\ request'[r].held = request[r].held /\ request'[r].made = request[r].made
        /\ request'[r].saw = request[r].saw /\ request'[r].known = request[r].known
    BY <1>3, <2>1, Goes
  <2>3. Sound(request'[r])
    BY <1>1, <2>1, <2>2
       DEF Sound, InOrder, Locking, Erasing, Seeing, GrantPcs, WithdrawPcs, ErasePcs
  <2> QED BY <1>3, <2>1, <2>3, GoesOn
<1> QED BY <1>2, <1>3 DEF Find

LEMMA WithdrawLocks ==
  ASSUME Inv, NEW r \in Requests, Withdraw(r)
  PROVE  Inv'
<1> DEFINE h == Found(r)
           y == [request[r] EXCEPT !.pc = "commit", !.target = {}, !.held = h]
<1>1. /\ Sound(request[r]) /\ request[r].pc = "refind" /\ request[r] \in Request
  BY DEF Inv, Typed, Withdraw
<1>2. CASE RollBack(r, "refused") \/ RollBack(r, "withdrawn")
  BY <1>2, RollBackKeeps DEF Words
<1>3. CASE /\ h # {} /\ UNCHANGED record
           /\ request' = [request EXCEPT ![r].pc = "commit", ![r].target = {}, ![r].held = h]
  <2>1. h \subseteq Current /\ h \in SUBSET Rec
    BY Kinds DEF Inv, Found
  <2>2. \A q \in Requests \ {r} : h \cap request[q].held = {}
    BY DEF Withdraw, LockedByOther, Found
  <2> HIDE DEF h
  <2>3. /\ y \in Request
        /\ y.op = request[r].op /\ y.pc = "commit" /\ y.target = {} /\ y.held = h
        /\ y.made = request[r].made /\ y.saw = request[r].saw /\ y.known = request[r].known
    BY <1>1, <2>1 DEF Request
  <2>4. request' = [q \in Requests |-> IF q = r THEN y ELSE request[q]]
    BY <1>3 DEF Inv, Typed
  <2> HIDE DEF y
  <2>5. /\ request' \in [Requests -> Request] /\ request'[r] = y
        /\ \A q \in Requests \ {r} : request'[q] = request[q]
    BY <2>3, <2>4 DEF Inv, Typed
  <2>6. Sound(y)
    BY <1>1, <1>3, <2>1, <2>3
       DEF Sound, InOrder, Locking, Erasing, Seeing, GrantPcs, WithdrawPcs, ErasePcs
  <2>7. \A q \in Requests \ {r} : Apart(y, request[q])
    BY <1>1, <2>2, <2>3 DEF Apart, Sound, Locking
  <2> QED BY <1>3, <2>5, <2>6, <2>7, LocalStep
<1> QED BY <1>2, <1>3 DEF Withdraw

LEMMA CollectKeeps ==
  ASSUME Inv, NEW r \in Requests, Collect(r)
  PROVE  Inv'
<1>1. Sound(request[r]) /\ request[r].pc = "collect" /\ Goto(r, "delete", Live)
  BY DEF Inv, Collect
<1>2. /\ "delete" \in {"commit"} \cup GrantPcs \cup WithdrawPcs \cup ErasePcs
      /\ Live \in SUBSET Rec /\ Live \cap Absent = {}
  BY Kinds DEF ErasePcs, Inv
<1>3. /\ request'[r].op = request[r].op /\ request'[r].pc = "delete"
      /\ request'[r].target = Live
      /\ request'[r].held = request[r].held /\ request'[r].made = request[r].made
      /\ request'[r].saw = request[r].saw /\ request'[r].known = request[r].known
  BY <1>1, <1>2, Goes
<1>4. Sound(request'[r])
  BY <1>1, <1>2, <1>3
     DEF Sound, InOrder, Locking, Erasing, Seeing, Whole, GrantPcs, WithdrawPcs, ErasePcs
<1> QED BY <1>1, <1>2, <1>4, GoesOn

LEMMA DeleteKeeps ==
  ASSUME Inv, NEW r \in Requests, Delete(r)
  PROVE  Inv'
<1> DEFINE h == request[r].target \cap Live
           y == [request[r] EXCEPT !.pc = "commit", !.target = {}, !.held = h]
<1>1. /\ Sound(request[r]) /\ request[r].pc = "delete" /\ request[r] \in Request
      /\ UNCHANGED record /\ request[r].op = "erase"
  BY DEF Inv, Typed, Delete, Sound, InOrder, ErasePcs
<1>2. h \subseteq Live /\ h \in SUBSET Rec /\ Live \cap Absent = {} /\ Current \subseteq Live
  BY Kinds DEF Inv
<1>3. \A q \in Requests \ {r} : h \cap request[q].held = {}
  BY DEF Delete, LockedByOther
<1>4. Whole(h) /\ request[r].known \subseteq h \cup Gone
  BY <1>1, <1>2 DEF Sound, Erasing, Whole
<1> HIDE DEF h
<1>5. /\ y \in Request
      /\ y.op = request[r].op /\ y.pc = "commit" /\ y.target = {} /\ y.held = h
      /\ y.made = request[r].made /\ y.saw = request[r].saw /\ y.known = request[r].known
  BY <1>1, <1>2 DEF Request
<1>6. request' = [q \in Requests |-> IF q = r THEN y ELSE request[q]]
  BY DEF Delete, Inv, Typed, h
<1> HIDE DEF y
<1>7. /\ request' \in [Requests -> Request] /\ request'[r] = y
      /\ \A q \in Requests \ {r} : request'[q] = request[q]
  BY <1>5, <1>6 DEF Inv, Typed
<1>8. Sound(y)
  BY <1>1, <1>2, <1>4, <1>5
     DEF Sound, InOrder, Locking, Erasing, Seeing, GrantPcs, WithdrawPcs, ErasePcs
<1>9. \A q \in Requests \ {r} : Apart(y, request[q])
  BY <1>1, <1>3, <1>5 DEF Apart, Sound, Locking
<1> QED BY <1>1, <1>7, <1>8, <1>9, LocalStep

----------------------------------------------------------------------------
(* A transaction begins.                                                   *)

\* A request that begins holds nothing.
LEMMA BeginsKeeps ==
  ASSUME Inv, NEW r \in Requests, NEW STATE y, y \in Request,
         request' = [request EXCEPT ![r] = y], UNCHANGED record,
         y.held = {}, y.made = NoRec, y.target = {},
         y.pc \in {"look", "find", "collect"}, InOrder(y), y.known \subseteq Live
  PROVE  Inv'
<1>1. /\ request' \in [Requests -> Request] /\ request'[r] = y
      /\ \A q \in Requests \ {r} : request'[q] = request[q]
  BY DEF Inv, Typed
<1>2. Sound(y)
  BY DEF Sound, InOrder, Locking, Erasing, Seeing, GrantPcs, WithdrawPcs, ErasePcs
<1>3. \A q \in Requests \ {r} : Apart(y, request[q])
  BY DEF Apart
<1> QED BY <1>1, <1>2, <1>3, LocalStep

LEMMA BeginGrantKeeps ==
  ASSUME Inv, NEW r \in Requests, NEW rev \in Revisions, BeginGrant(r, rev)
  PROVE  Inv'
<1> DEFINE y == [Idle EXCEPT !.op = "grant", !.pc = "look", !.rev = rev, !.saw = Consents]
<1>1. Consents \in SUBSET Words
  BY Kinds DEF Inv
<1>2. /\ y \in Request /\ y.held = {} /\ y.made = NoRec /\ y.target = {}
      /\ y.pc = "look" /\ y.op = "grant" /\ y.known = {}
  BY <1>1 DEF Idle, Request, GrantPcs, Words
<1>3. request' = [request EXCEPT ![r] = y] /\ UNCHANGED record
  BY DEF BeginGrant
<1> HIDE DEF y
<1>4. InOrder(y)
  BY <1>2 DEF InOrder, GrantPcs, WithdrawPcs, ErasePcs
<1> QED BY <1>2, <1>3, <1>4, BeginsKeeps

LEMMA BeginWithdrawKeeps ==
  ASSUME Inv, NEW r \in Requests, BeginWithdraw(r)
  PROVE  Inv'
<1> DEFINE y == [Idle EXCEPT !.op = "withdraw", !.pc = "find", !.saw = Consents]
<1>1. Consents \in SUBSET Words
  BY Kinds DEF Inv
<1>2. /\ y \in Request /\ y.held = {} /\ y.made = NoRec /\ y.target = {}
      /\ y.pc = "find" /\ y.op = "withdraw" /\ y.known = {}
  BY <1>1 DEF Idle, Request, WithdrawPcs, Words
<1>3. request' = [request EXCEPT ![r] = y] /\ UNCHANGED record
  BY DEF BeginWithdraw
<1> HIDE DEF y
<1>4. InOrder(y)
  BY <1>2 DEF InOrder, GrantPcs, WithdrawPcs, ErasePcs
<1> QED BY <1>2, <1>3, <1>4, BeginsKeeps

LEMMA BeginEraseKeeps ==
  ASSUME Inv, NEW r \in Requests, BeginErase(r)
  PROVE  Inv'
<1> DEFINE y == [Idle EXCEPT !.op = "erase", !.pc = "collect", !.known = Live]
<1>1. Live \in SUBSET Rec
  BY Kinds DEF Inv
<1>2. /\ y \in Request /\ y.held = {} /\ y.made = NoRec /\ y.target = {}
      /\ y.pc = "collect" /\ y.op = "erase" /\ y.known = Live
  BY <1>1 DEF Idle, Request, ErasePcs, Words
<1>3. request' = [request EXCEPT ![r] = y] /\ UNCHANGED record
  BY DEF BeginErase
<1> HIDE DEF y
<1>4. InOrder(y)
  BY <1>2 DEF InOrder, GrantPcs, WithdrawPcs, ErasePcs
<1> QED BY <1>2, <1>3, <1>4, BeginsKeeps

----------------------------------------------------------------------------
(* The invariant, and what follows from it.                                *)

LEMMA Initially ==
  ASSUME Init
  PROVE  Inv
<1>1. record \in [Rec -> Row] /\ Live = {} /\ Current = {}
  BY DEF Init, Live, Current, NoRow, Row
<1>2. Idle \in Request
  BY DEF Idle, Request, Words
<1>3. Sound(Idle)
  BY DEF Idle, Sound, InOrder, Locking, Erasing, Seeing, GrantPcs, WithdrawPcs, ErasePcs
<1>4. Apart(Idle, Idle)
  BY DEF Idle, Apart
<1>5. \A r \in Requests : request[r] = Idle
  BY DEF Init
<1>6. Typed /\ Single
  BY <1>1, <1>2 DEF Init, Typed, Single
<1> QED BY <1>3, <1>4, <1>5, <1>6 DEF Inv

LEMMA StepKeeps ==
  ASSUME Inv, NEW r \in Requests, Step(r)
  PROVE  Inv'
<1>1. CASE LookForGrant(r)    BY <1>1, LookForGrantKeeps
<1>2. CASE RelookForGrant(r)  BY <1>2, RelookForGrantKeeps
<1>3. CASE LookForCurrent(r)  BY <1>3, LookForCurrentKeeps
<1>4. CASE Archive(r)         BY <1>4, ArchiveKeeps
<1>5. CASE Insert(r)          BY <1>5, InsertKeeps
<1>6. CASE CommitGrant(r)     BY <1>6, GrantKeeps
<1>7. CASE LookForWinner(r)   BY <1>7, LookForWinnerKeeps
<1>8. CASE TakeWinner(r)      BY <1>8, TakeWinnerKeeps
<1>9. CASE Find(r)            BY <1>9, FindKeeps
<1>10. CASE Withdraw(r)       BY <1>10, WithdrawLocks
<1>11. CASE CommitWithdraw(r) BY <1>11, WithdrawKeeps
<1>12. CASE Collect(r)        BY <1>12, CollectKeeps
<1>13. CASE Delete(r)         BY <1>13, DeleteKeeps
<1>14. CASE CommitErase(r)    BY <1>14, EraseKeeps
<1> QED BY <1>1, <1>2, <1>3, <1>4, <1>5, <1>6, <1>7, <1>8, <1>9, <1>10, <1>11, <1>12, <1>13,
           <1>14 DEF Step

LEMMA NextKeeps ==
  ASSUME Inv, [Next]_vars
  PROVE  Inv'
<1>1. ASSUME NEW r \in Requests, NEW rev \in Revisions, BeginGrant(r, rev) PROVE Inv'
  BY <1>1, BeginGrantKeeps
<1>2. ASSUME NEW r \in Requests, BeginWithdraw(r) PROVE Inv'
  BY <1>2, BeginWithdrawKeeps
<1>3. ASSUME NEW r \in Requests, BeginErase(r) PROVE Inv'
  BY <1>3, BeginEraseKeeps
<1>4. ASSUME NEW r \in Requests, Step(r) PROVE Inv'
  BY <1>4, StepKeeps
<1>5. ASSUME NEW r \in Requests, Abort(r) PROVE Inv'
  BY <1>5, RollBackKeeps DEF Abort
<1>6. CASE UNCHANGED vars
  <2>1. UNCHANGED record /\ UNCHANGED request
    BY <1>6 DEF vars
  <2>2. UNCHANGED <<Live, Current, Absent, Gone>>
    BY <2>1, SameRows
  <2> QED BY <2>1, <2>2 DEF Inv, Typed, Single, Sound, InOrder, Locking, Erasing, Seeing, Whole,
                            Saws, Apart
<1> QED BY <1>1, <1>2, <1>3, <1>4, <1>5, <1>6 DEF Next

\* Every reachable state is one of the invariant.
THEOREM Invariance == Spec => []Inv
<1> QED BY Initially, NextKeeps, PTL DEF Spec

\* The variables keep their types (the columns of ConsentRecord, the statements of a
\* transaction).
THEOREM TypeCorrect == Spec => []TypeOK
<1>1. Inv => TypeOK
  BY DEF Inv, Typed, TypeOK, Request, GrantPcs, WithdrawPcs, ErasePcs, Words
<1> QED BY <1>1, Invariance, PTL

\* A consent history has exactly one current record, whatever grants, withdrawals,
\* erasures and rollbacks there are at once (grant; ConsentRecord.is_current).
THEOREM OneCurrentRecord == Spec => []OneCurrent
<1>1. ASSUME Inv, Live # {} PROVE Cardinality(Current) = 1
  <2>1. PICK i : i \in Current
    BY <1>1 DEF Inv, Single
  <2>2. Current = {i}
    BY <1>1, <2>1 DEF Inv, Single
  <2> QED BY <2>2, FS_Singleton
<1>2. Inv => OneCurrent
  BY <1>1 DEF OneCurrent
<1> QED BY <1>2, Invariance, PTL

----------------------------------------------------------------------------
(* Answers.                                                                *)

\* What a request may be told when it ends.
Truthful(r) ==
  /\ request'[r].answer \in {"granted", "withdrawn"} => request'[r].answer \in Saw(r)
  /\ request'[r].answer = "erased" =>
       \A i \in request[r].known : record'[i].status = "erased"

\* A rollback answers what is committed, or claims nothing.
LEMMA RolledBack ==
  ASSUME Inv, NEW r \in Requests, NEW a \in Words \cup {"erased", "refused", "error"},
         RollBack(r, a)
  PROVE  request'[r].answer = a /\ UNCHANGED <<record, Consents>>
BY SameRows DEF RollBack, Inv, Typed, Idle

LEMMA AnswersTruly ==
  ASSUME Inv, NEW r \in Requests, Step(r), Answers(r)
  PROVE  Truthful(r)
<1>0. request[r] \in Request /\ Sound(request[r])
  BY DEF Inv, Typed
<1>1. ASSUME NEW STATE p, p \in {"commit"} \cup GrantPcs \cup WithdrawPcs \cup ErasePcs,
             NEW STATE t, t \in SUBSET Rec, Goto(r, p, t)
      PROVE  FALSE
  BY <1>1, Goes DEF Answers, Busy, GrantPcs, WithdrawPcs, ErasePcs
<1>2. ASSUME RollBack(r, "error") \/ RollBack(r, "refused") PROVE Truthful(r)
  BY <1>2, RolledBack DEF Truthful
<1>3. /\ {} \in SUBSET Rec /\ Current \in SUBSET Rec /\ Live \in SUBSET Rec
      /\ Granted(r) \in SUBSET Rec /\ CurrentTo(r) \in SUBSET Rec
  BY Kinds DEF Inv, Granted, CurrentTo
<1>4. {"relook", "archive", "rearchive", "insert", "rewinner", "refind", "delete"}
        \subseteq {"commit"} \cup GrantPcs \cup WithdrawPcs \cup ErasePcs
  BY DEF GrantPcs, WithdrawPcs, ErasePcs
<1>5. CASE Archive(r) \/ Insert(r) \/ Delete(r)
  <2>1. request \in [Requests -> Request]
    BY DEF Inv, Typed
  <2>2. CASE Archive(r)
    <3>1. request'[r].pc = "insert"
      BY <2>1, <2>2 DEF Archive
    <3> QED BY <3>1 DEF Answers, Busy
  <2>3. CASE Insert(r)
    <3>1. CASE request' = [request EXCEPT ![r].pc = "commit", ![r].made = Fresh]
      <4>1. request'[r].pc = "commit"
        BY <2>1, <3>1 DEF Request
      <4> QED BY <4>1 DEF Answers, Busy
    <3>2. CASE request' = [request EXCEPT ![r].pc = "winner"]
      <4>1. request'[r].pc = "winner"
        BY <2>1, <3>2
      <4> QED BY <4>1 DEF Answers, Busy
    <3> QED BY <2>3, <3>1, <3>2 DEF Insert
  <2>4. CASE Delete(r)
    <3>1. request'[r].pc = "commit"
      BY <2>1, <2>4 DEF Delete
    <3> QED BY <3>1 DEF Answers, Busy
  <2> QED BY <1>5, <2>2, <2>3, <2>4
<1>6. CASE LookForGrant(r) \/ LookForCurrent(r) \/ Collect(r)
  <2>1. PICK p \in {"relook", "archive", "rearchive", "insert", "delete"}, t \in SUBSET Rec :
          Goto(r, p, t)
    BY <1>3, <1>6 DEF LookForGrant, LookForCurrent, Collect
  <2> QED BY <1>1, <1>4, <2>1
<1>7. CASE RelookForGrant(r)
  <2>1. CASE request[r].target \cap Granted(r) # {}
    <3>1. PICK i \in Current : record[i].status = "granted"
      BY <2>1 DEF Granted
    <3>2. RollBack(r, "granted")
      BY <1>7, <2>1 DEF RelookForGrant
    <3>3. "granted" \in Consents
      BY <3>1 DEF Consents
    <3> QED BY <3>2, <3>3, RolledBack DEF Truthful, Saw, Words
  <2>2. CASE request[r].target \cap Granted(r) = {}
    BY <1>1, <1>3, <1>4, <1>7, <2>2 DEF RelookForGrant
  <2> QED BY <2>1, <2>2
<1>8. CASE CommitGrant(r)
  <2>1. Consents' = {"granted"} /\ record' \in [Rec -> Row]
    BY <1>8, GrantEffect
  <2>2. request'[r] = [Idle EXCEPT !.answer = "granted"]
    BY <1>8, <2>1, OthersSee DEF CommitGrant, Words
  <2> QED BY <2>1, <2>2 DEF Truthful, Saw, Idle
<1>9. CASE LookForWinner(r)
  BY <1>1, <1>2, <1>3, <1>4, <1>9 DEF LookForWinner
<1>10. CASE TakeWinner(r)
  <2>1. CASE RollBack(r, "error")
    BY <1>2, <2>1
  <2>2. CASE request[r].target \cap Current # {} /\ Commit(r, AfterGrant(r), "granted")
    <3>1. "granted" \in request[r].saw
      BY <1>0, <1>10, <2>2 DEF TakeWinner, Sound, Locking, Seeing, Saws
    <3>2. record' \in [Rec -> Row]
      BY <1>10, <2>2, WinnerEffect DEF TakeWinner, Inv, Typed
    <3>3. request'[r] = [Idle EXCEPT !.answer = "granted"]
      BY <2>2, <3>2, OthersSee DEF Words
    <3> QED BY <3>1, <3>3 DEF Truthful, Saw, Idle
  <2> QED BY <1>10, <2>1, <2>2 DEF TakeWinner
<1>11. CASE Find(r)
  BY <1>1, <1>2, <1>3, <1>4, <1>11 DEF Find
<1>12. CASE Withdraw(r)
  <2>1. CASE RollBack(r, "refused")
    BY <1>2, <2>1
  <2>2. CASE RollBack(r, "withdrawn") /\ \E i \in Found(r) : record[i].status # "granted"
    <3>1. PICK i \in Current : record[i].status = "withdrawn"
      BY <2>2 DEF Found, Current, Live
    <3>2. "withdrawn" \in Consents
      BY <3>1 DEF Consents
    <3> QED BY <2>2, <3>2, RolledBack DEF Truthful, Saw, Words
  <2>3. CASE request' = [request EXCEPT ![r].pc = "commit", ![r].target = {}, ![r].held = Found(r)]
    BY <2>3 DEF Answers, Busy, Inv, Typed
  <2> QED BY <1>12, <2>1, <2>2, <2>3 DEF Withdraw
<1>13. CASE CommitWithdraw(r)
  <2>1. "withdrawn" \in Consents' /\ record' \in [Rec -> Row]
    BY <1>13, WithdrawEffect
  <2>2. request'[r] = [Idle EXCEPT !.answer = "withdrawn"]
    BY <1>13, <2>1, OthersSee DEF CommitWithdraw, Words
  <2> QED BY <2>1, <2>2 DEF Truthful, Saw, Idle
<1>14. CASE CommitErase(r)
  <2>1. Gone' = Gone \cup request[r].held /\ record' \in [Rec -> Row]
    BY <1>14, EraseEffect
  <2>2. request[r].known \subseteq request[r].held \cup Gone
    BY <1>0, <1>14 DEF CommitErase, Sound, Erasing
  <2>3. \A i \in request[r].known : record'[i].status = "erased"
    BY <2>1, <2>2 DEF Gone
  <2>4. request'[r] = [Idle EXCEPT !.answer = "erased"]
    BY <1>14, <2>1, OthersSee DEF CommitErase
  <2> QED BY <2>3, <2>4 DEF Truthful, Idle
<1> QED BY <1>5, <1>6, <1>7, <1>8, <1>9, <1>10, <1>11, <1>12, <1>13, <1>14 DEF Step

\* A step of one request ends no other.
LEMMA OthersGoOn ==
  ASSUME Inv, NEW p \in Requests, NEW r \in Requests, p # r, Step(p)
  PROVE  request'[r].pc = request[r].pc
<1>0. request \in [Requests -> Request]
  BY DEF Inv, Typed
<1>1. ASSUME NEW STATE written, NEW STATE a, Commit(p, written, a)
      PROVE  request'[r].pc = request[r].pc
  <2>1. request'[r] = IF request[r].op \in {"grant", "withdraw"}
                      THEN [request[r] EXCEPT !.saw = @ \cup Consents'] ELSE request[r]
    BY <1>1 DEF Commit
  <2>2. [request[r] EXCEPT !.saw = @ \cup Consents'].pc = request[r].pc
    BY <1>0 DEF Request
  <2> QED BY <2>1, <2>2
<1>2. ASSUME NEW STATE a, RollBack(p, a)
      PROVE  request'[r].pc = request[r].pc
  BY <1>0, <1>2 DEF RollBack
<1>3. ASSUME NEW STATE c, NEW STATE t, Goto(p, c, t)
      PROVE  request'[r].pc = request[r].pc
  BY <1>0, <1>3 DEF Goto
<1>4. CASE LookForGrant(p) \/ LookForCurrent(p) \/ Collect(p)
  BY <1>3, <1>4 DEF LookForGrant, LookForCurrent, Collect
<1>5. CASE RelookForGrant(p) \/ LookForWinner(p) \/ Find(p)
  BY <1>2, <1>3, <1>5 DEF RelookForGrant, LookForWinner, Find
<1>6. CASE Archive(p) \/ Insert(p) \/ Delete(p)
  BY <1>0, <1>6 DEF Archive, Insert, Delete
<1>7. CASE TakeWinner(p)
  BY <1>1, <1>2, <1>7 DEF TakeWinner
<1>8. CASE CommitGrant(p) \/ CommitWithdraw(p) \/ CommitErase(p)
  BY <1>1, <1>8 DEF CommitGrant, CommitWithdraw, CommitErase
<1>9. CASE Withdraw(p)
  <2>1. CASE request' = [request EXCEPT ![p].pc = "commit", ![p].target = {}, ![p].held = Found(p)]
    BY <1>0, <2>1
  <2> QED BY <1>2, <1>9, <2>1 DEF Withdraw
<1> QED BY <1>4, <1>5, <1>6, <1>7, <1>8, <1>9 DEF Step

\* Who is told that consent is granted or withdrawn is told what was the case at some
\* moment of the request; who is told that everything was forgotten has no record left
\* of those there were (grant, withdraw, right_to_be_forgotten).
THEOREM TrueAnswers == Spec => AnswersAreTrue
<1>1. ASSUME Inv, Next, NEW r \in Requests, Answers(r) PROVE Truthful(r)
  <2>1. PICK p \in Requests : \/ \E rev \in Revisions : BeginGrant(p, rev)
                              \/ BeginWithdraw(p) \/ BeginErase(p) \/ Step(p) \/ Abort(p)
    BY <1>1 DEF Next
  <2>2. CASE \E rev \in Revisions : BeginGrant(p, rev)
    BY <1>1, <2>2 DEF BeginGrant, Answers, Busy, Inv, Typed
  <2>3. CASE BeginWithdraw(p)
    BY <1>1, <2>3 DEF BeginWithdraw, Answers, Busy, Inv, Typed
  <2>4. CASE BeginErase(p)
    BY <1>1, <2>4 DEF BeginErase, Answers, Busy, Inv, Typed
  <2>5. CASE Step(p)
    <3>1. p = r
      BY <1>1, <2>5, OthersGoOn DEF Answers, Busy
    <3> QED BY <1>1, <2>5, <3>1, AnswersTruly
  <2>6. CASE Abort(p)
    BY <1>1, <2>6 DEF Abort, RollBack, Answers, Busy, Inv, Typed, Truthful, Idle
  <2> QED BY <2>1, <2>2, <2>3, <2>4, <2>5, <2>6
<1>2. Inv /\ [Next]_vars =>
        [\A r \in Requests : Answers(r) =>
           /\ request'[r].answer \in {"granted", "withdrawn"} => request'[r].answer \in Saw(r)
           /\ request'[r].answer = "erased" =>
                \A i \in request[r].known : record'[i].status = "erased"]_vars
  BY <1>1 DEF Truthful
<1> QED BY <1>2, Invariance, PTL DEF AnswersAreTrue, Spec

----------------------------------------------------------------------------
(* The exports of a citizen: the inductive invariant.                      *)
ExportStatuses == Active \cup Final \cup {"absent", "ready", "failed"}
ExportRow == [status: ExportStatuses, doc: {"none", "kept", "disposed"},
              token: BOOLEAN, expired: BOOLEAN]
TaskPcs == {"off", "queued", "reuse", "start", "build", "made", "notify", "retry"}
SweepPcs == {"off", "expire", "stuck"}

ExportTypes ==
  /\ export \in [Exports -> ExportRow]
  /\ task \in [Exports -> [pc: TaskPcs, tries: Nat]]
  /\ sweep \in [pc: SweepPcs, batch: SUBSET Exports, at: Exports \cup {None}]
  /\ hook \subseteq Exports
  /\ served \in [Exports -> Nat]
\* An archive is handed out with the token, which no step gives back.
TokenSpent(e) ==
  /\ export[e].status = "absent" \/ export[e].token => served[e] = 0
  /\ served[e] <= 1

\* Nothing has happened to a request that was not made.
Untouched(e) ==
  export[e].status = "absent" =>
    /\ export[e] = NoExport /\ task[e].pc = "off"
    /\ e \notin hook /\ e \notin sweep.batch

\* The task is queued once, by the commit of the request.
QueuedOnce(e) == e \in hook => export[e].status = "pending" /\ task[e].pc = "off" /\ e \notin sweep.batch

\* Seven days are longer than the task and its retries.
PastExpiry(e) == export[e].expired => task[e].pc = "off" /\ e \notin hook

\* Who has written an archive, or was given one by an earlier run.
Written(e) ==
  /\ export[e].status = "ready" => export[e].doc # "none"
  /\ task[e].pc = "reuse" => export[e].doc # "none"

\* A document is disposed of when nobody can download it any more.
DisposedLate(e) == export[e].doc = "disposed" => ~export[e].token \/ export[e].expired

\* The clean-up works on requests that stay expired.
SweptExpired ==
  /\ sweep.pc = "expire" => \A e \in sweep.batch : export[e].expired
  /\ sweep.at # None => sweep.pc = "expire" /\ sweep.at \in sweep.batch

ExportInv ==
  /\ ExportTypes
  /\ \A e \in Exports : TokenSpent(e) /\ Untouched(e) /\ QueuedOnce(e) /\ PastExpiry(e)
                        /\ Written(e) /\ DisposedLate(e)
  /\ SweptExpired

\* A citizen without exports satisfies the invariant (services.request_export).
LEMMA ExportInvInit == ExportInit => ExportInv
BY ExportAssumption DEF ExportInit, ExportInv, ExportTypes, ExportRow, NoExport, NoTask, NoSweep,
  Active, Final, TaskPcs, SweepPcs, ExportStatuses, TokenSpent, Untouched, QueuedOnce, PastExpiry,
  Written, DisposedLate, SweptExpired

Saved == {"pending", "processing", "ready", "failed", "delivered", "expired"}

\* A save of some columns keeps the rows rows.
LEMMA RowSaved ==
  ASSUME export \in [Exports -> ExportRow], NEW e \in Exports, NEW s \in Saved,
         NEW d \in {"none", "kept", "disposed"}, NEW x \in BOOLEAN
  PROVE  /\ [export EXCEPT ![e].status = s] \in [Exports -> ExportRow]
         /\ [export EXCEPT ![e].doc = d] \in [Exports -> ExportRow]
         /\ [export EXCEPT ![e].expired = x] \in [Exports -> ExportRow]
         /\ [export EXCEPT ![e].status = s, ![e].token = x] \in [Exports -> ExportRow]
         /\ [export EXCEPT ![e].status = s, ![e].token = x, ![e].doc = d] \in [Exports -> ExportRow]
         /\ [export EXCEPT ![e].status = s, ![e].expired = x] \in [Exports -> ExportRow]
         /\ [export EXCEPT ![e].status = s, ![e].doc = d, ![e].expired = x] \in [Exports -> ExportRow]
<1>1. s \in ExportStatuses
  BY DEF Saved, ExportStatuses, Active, Final
<1>2. [export EXCEPT ![e].status = s] \in [Exports -> ExportRow]
  BY <1>1 DEF ExportRow
<1>3. [export EXCEPT ![e].doc = d] \in [Exports -> ExportRow]
  BY <1>1 DEF ExportRow
<1>4. [export EXCEPT ![e].expired = x] \in [Exports -> ExportRow]
  BY <1>1 DEF ExportRow
<1>5. [export EXCEPT ![e].status = s, ![e].token = x] \in [Exports -> ExportRow]
  BY <1>1 DEF ExportRow
<1>6. [export EXCEPT ![e].status = s, ![e].token = x, ![e].doc = d] \in [Exports -> ExportRow]
  BY <1>1 DEF ExportRow
<1>7. [export EXCEPT ![e].status = s, ![e].expired = x] \in [Exports -> ExportRow]
  BY <1>1 DEF ExportRow
<1>8. [export EXCEPT ![e].status = s, ![e].doc = d, ![e].expired = x] \in [Exports -> ExportRow]
  BY <1>1 DEF ExportRow
<1> QED BY <1>2, <1>3, <1>4, <1>5, <1>6, <1>7, <1>8

\* Every row, task and clean-up stays in a known state (models.py, tasks.py).
LEMMA ExportTypesStep ==
  ASSUME ExportInv, [ExportNext]_exportVars
  PROVE  ExportTypes'
<1> USE ExportAssumption DEF ExportTypes
<1>t. ExportTypes
  BY DEF ExportInv
<1>r. export \in [Exports -> ExportRow]
  BY <1>t
<1>d. \A e \in Exports : export[e].doc \in {"none", "kept", "disposed"}
  BY <1>t DEF ExportRow
<1>p. {"off", "queued", "reuse", "start", "build", "made", "notify", "retry"} \subseteq TaskPcs
  BY DEF TaskPcs
<1>w. {"off", "expire", "stuck"} \subseteq SweepPcs
  BY DEF SweepPcs
<1>1. ASSUME NEW e \in Exports, RequestExport(e) PROVE ExportTypes'
  <2>1. export' \in [Exports -> ExportRow]
    BY <1>1, <1>r, RowSaved DEF RequestExport, Saved
  <2> QED BY <1>1, <2>1, <1>t DEF RequestExport
<1>2. ASSUME NEW e \in Exports, RunHook(e) PROVE ExportTypes'
  BY <1>2, <1>t, <1>p DEF RunHook, NoTask
<1>3. ASSUME NEW e \in Exports, HookLost(e) PROVE ExportTypes'
  BY <1>3, <1>t DEF HookLost
<1>4. ASSUME NEW e \in Exports, Download(e) PROVE ExportTypes'
  <2>1. PICK doc \in {export[e].doc, "disposed"} :
          export' = [export EXCEPT ![e].status = "delivered", ![e].token = FALSE, ![e].doc = doc]
    BY <1>4 DEF Download, TokenAfter
  <2>2. export' \in [Exports -> ExportRow]
    BY <2>1, <1>r, <1>d, RowSaved DEF Saved
  <2> QED BY <1>4, <2>2, <1>t DEF Download
<1>5. ASSUME NEW e \in Exports, Expires(e) PROVE ExportTypes'
  <2>1. export' \in [Exports -> ExportRow]
    BY <1>5, <1>r, RowSaved DEF Expires, Saved
  <2> QED BY <1>5, <2>1, <1>t DEF Expires
<1>6. ASSUME NEW e \in Exports, TaskReads(e) \/ TaskWrites(e) \/ TaskEnds(e) \/ TaskRetries(e) \/ TaskLost(e)
      PROVE  ExportTypes'
  <2>1. task' \in [Exports -> [pc: TaskPcs, tries: Nat]]
    BY <1>6, <1>t, <1>p DEF TaskReads, TaskWrites, TaskEnds, TaskRetries, TaskLost, TaskTo, NoTask
  <2> QED BY <1>6, <2>1, <1>t DEF TaskReads, TaskWrites, TaskEnds, TaskRetries, TaskLost
<1>7. ASSUME NEW e \in Exports, TaskReuses(e) \/ TaskStarts(e) \/ TaskSavesReady(e)
      PROVE  ExportTypes'
  <2>1. export' \in [Exports -> ExportRow]
    <3>1. CASE TaskReuses(e)
      BY <3>1, <1>r, RowSaved DEF TaskReuses, Saved
    <3>2. CASE TaskStarts(e)
      BY <3>2, <1>r, RowSaved DEF TaskStarts, Saved
    <3>3. CASE TaskSavesReady(e)
      BY <3>3, <1>r, RowSaved DEF TaskSavesReady, Saved
    <3> QED BY <1>7, <3>1, <3>2, <3>3
  <2>2. task' \in [Exports -> [pc: TaskPcs, tries: Nat]]
    BY <1>7, <1>t, <1>p DEF TaskReuses, TaskStarts, TaskSavesReady, TaskTo
  <2> QED BY <1>7, <2>1, <2>2, <1>t DEF TaskReuses, TaskStarts, TaskSavesReady
<1>8. ASSUME NEW e \in Exports, TaskRaises(e) \/ TaskTimesOut(e)
      PROVE  ExportTypes'
  <2>1. export' \in [Exports -> ExportRow]
    <3>1. export' = [export EXCEPT ![e].status = "failed"]
      BY <1>8 DEF TaskRaises, TaskTimesOut
    <3> QED BY <3>1, <1>r, RowSaved DEF Saved
  <2>2. task' \in [Exports -> [pc: TaskPcs, tries: Nat]]
    BY <1>8, <1>t, <1>p DEF TaskRaises, TaskTimesOut, TaskTo, NoTask
  <2> QED BY <1>8, <2>1, <2>2, <1>t DEF TaskRaises, TaskTimesOut
<1>9. ASSUME NEW e \in Exports, SweepDisposes(e) PROVE ExportTypes'
  <2>1. PICK doc \in {export[e].doc, "disposed"} : export' = [export EXCEPT ![e].doc = doc]
    BY <1>9 DEF SweepDisposes
  <2>2. export' \in [Exports -> ExportRow]
    <3>1. doc \in {"none", "kept", "disposed"}
      BY <1>d
    <3> QED BY <2>1, <3>1, <1>r, RowSaved DEF Saved
  <2> QED BY <1>9, <2>2, <1>t DEF SweepDisposes
<1>10. ASSUME NEW e \in Exports, SweepExpires(e) \/ SweepFails(e) PROVE ExportTypes'
  <2>1. export' \in [Exports -> ExportRow]
    <3>1. PICK s \in {"expired", "failed"} : export' = [export EXCEPT ![e].status = s]
      BY <1>10 DEF SweepExpires, SweepFails
    <3> QED BY <3>1, <1>r, RowSaved DEF Saved
  <2>2. /\ hook' = hook /\ task' = task /\ served' = served
        /\ sweep' = [sweep EXCEPT !.at = None, !.batch = @ \ {e}] \/ sweep' = [sweep EXCEPT !.batch = @ \ {e}]
    BY <1>10 DEF SweepExpires, SweepFails
  <2> HIDE DEF ExportTypes
  <2>3. sweep' \in [pc: SweepPcs, batch: SUBSET Exports, at: Exports \cup {None}]
    <3>1. CASE sweep' = [sweep EXCEPT !.at = None, !.batch = @ \ {e}]
      BY <3>1, <1>t DEF ExportTypes
    <3>2. CASE sweep' = [sweep EXCEPT !.batch = @ \ {e}]
      BY <3>2, <1>t DEF ExportTypes
    <3> QED BY <3>1, <3>2, <2>2
  <2> QED BY <2>1, <2>2, <2>3, <1>t DEF ExportTypes
<1>11. ASSUME SweepStarts \/ SweepEnds \/ SweepLost PROVE ExportTypes'
  BY <1>11, <1>t, <1>w DEF SweepStarts, SweepEnds, SweepLost, NoSweep, Overdue
<1>12. ASSUME NEW stuck \in SUBSET Stuck, SweepFinds(stuck) PROVE ExportTypes'
  BY <1>12, <1>t, <1>w DEF SweepFinds, Stuck
<1>13. CASE UNCHANGED exportVars
  BY <1>13, <1>t DEF exportVars
<1> QED
  BY <1>1, <1>2, <1>3, <1>4, <1>5, <1>6, <1>7, <1>8, <1>9, <1>10, <1>11, <1>12, <1>13
     DEF ExportNext, TaskStep

\* What holds of every request.
EachExport(e) ==
  TokenSpent(e) /\ Untouched(e) /\ QueuedOnce(e) /\ PastExpiry(e) /\ Written(e) /\ DisposedLate(e)

\* A step on one request, or of the clean-up, keeps what holds of every request
\* (process_data_export, ExportDownloadView, cleanup_export_files).
LEMMA EachExportStep ==
  ASSUME ExportInv, [ExportNext]_exportVars, NEW f
  PROVE  (f \in Exports => EachExport(f)') /\ SweptExpired'
<1> USE ExportAssumption
    DEF EachExport, TokenSpent, Untouched, QueuedOnce, PastExpiry, Written, DisposedLate, SweptExpired
<1>t. ExportTypes /\ (\A e \in Exports : EachExport(e)) /\ SweptExpired
  BY DEF ExportInv
<1> USE DEF ExportTypes, ExportRow
<1>1. ASSUME NEW e \in Exports, RequestExport(e) PROVE (f \in Exports => EachExport(f)') /\ SweptExpired'
  BY <1>1, <1>t DEF RequestExport, NoExport
<1>2. ASSUME NEW e \in Exports, RunHook(e) PROVE (f \in Exports => EachExport(f)') /\ SweptExpired'
  BY <1>2, <1>t DEF RunHook, NoTask
<1>3. ASSUME NEW e \in Exports, HookLost(e) PROVE (f \in Exports => EachExport(f)') /\ SweptExpired'
  BY <1>3, <1>t DEF HookLost
<1>4. ASSUME NEW e \in Exports, Download(e) PROVE (f \in Exports => EachExport(f)') /\ SweptExpired'
  BY <1>4, <1>t DEF Download, Downloadable, TokenAfter
<1>5. ASSUME NEW e \in Exports, Expires(e) PROVE (f \in Exports => EachExport(f)') /\ SweptExpired'
  BY <1>5, <1>t DEF Expires
<1>6. ASSUME NEW e \in Exports, TaskReads(e) \/ TaskWrites(e) \/ TaskEnds(e) \/ TaskRetries(e) \/ TaskLost(e)
      PROVE  (f \in Exports => EachExport(f)') /\ SweptExpired'
  BY <1>6, <1>t DEF TaskReads, TaskWrites, TaskEnds, TaskRetries, TaskLost, Running, TaskTo, NoTask
<1>7. ASSUME NEW e \in Exports, TaskReuses(e) \/ TaskStarts(e) \/ TaskSavesReady(e)
      PROVE  (f \in Exports => EachExport(f)') /\ SweptExpired'
  <2>1. CASE TaskReuses(e)
    BY <2>1, <1>t DEF TaskReuses, TaskTo
  <2>2. CASE TaskStarts(e)
    BY <2>2, <1>t DEF TaskStarts, TaskTo
  <2>3. CASE TaskSavesReady(e)
    BY <2>3, <1>t DEF TaskSavesReady, TaskTo
  <2> QED BY <1>7, <2>1, <2>2, <2>3
<1>8. ASSUME NEW e \in Exports, TaskRaises(e) \/ TaskTimesOut(e)
      PROVE  (f \in Exports => EachExport(f)') /\ SweptExpired'
  <2>1. CASE TaskRaises(e)
    BY <2>1, <1>t DEF TaskRaises, Running, TaskTo
  <2>2. CASE TaskTimesOut(e)
    BY <2>2, <1>t DEF TaskTimesOut, Running, NoTask
  <2> QED BY <1>8, <2>1, <2>2
<1>9. ASSUME NEW e \in Exports, SweepDisposes(e) PROVE (f \in Exports => EachExport(f)') /\ SweptExpired'
  BY <1>9, <1>t DEF SweepDisposes
<1>10. ASSUME NEW e \in Exports, SweepExpires(e) \/ SweepFails(e)
       PROVE  (f \in Exports => EachExport(f)') /\ SweptExpired'
  <2>1. CASE SweepExpires(e)
    BY <2>1, <1>t DEF SweepExpires
  <2>2. CASE SweepFails(e)
    BY <2>2, <1>t DEF SweepFails
  <2> QED BY <1>10, <2>1, <2>2
<1>11. ASSUME SweepStarts \/ SweepEnds \/ SweepLost PROVE (f \in Exports => EachExport(f)') /\ SweptExpired'
  BY <1>11, <1>t DEF SweepStarts, SweepEnds, SweepLost, NoSweep, Overdue
<1>12. ASSUME NEW stuck \in SUBSET Stuck, SweepFinds(stuck) PROVE (f \in Exports => EachExport(f)') /\ SweptExpired'
  BY <1>12, <1>t DEF SweepFinds, Stuck
<1>13. CASE UNCHANGED exportVars
  BY <1>13, <1>t DEF exportVars
<1> QED
  BY <1>1, <1>2, <1>3, <1>4, <1>5, <1>6, <1>7, <1>8, <1>9, <1>10, <1>11, <1>12, <1>13
     DEF ExportNext, TaskStep

\* Every behaviour keeps the invariant the two theorems below follow from (tasks.py).
THEOREM ExportInvariance == ExportSpec => []ExportInv
<1>1. ExportInv /\ [ExportNext]_exportVars => ExportInv'
  <2> SUFFICES ASSUME ExportInv, [ExportNext]_exportVars PROVE ExportInv'
    OBVIOUS
  <2>1. ExportTypes'
    BY ExportTypesStep
  <2>2. SweptExpired'
    BY EachExportStep
  <2>3. \A f \in Exports : EachExport(f)'
    BY EachExportStep
  <2> QED BY <2>1, <2>2, <2>3 DEF ExportInv, EachExport
<1> QED
  BY <1>1, ExportInvInit, PTL DEF ExportSpec

\* An archive is handed out at most once, for any number of requests, tasks raising
\* and lost, and clean-ups (ExportDownloadView, process_data_export).
THEOREM ArchiveServedOnce == ExportSpec => []ServedOnce
<1>1. ExportInv => ServedOnce
  BY DEF ExportInv, TokenSpent, ServedOnce
<1> QED
  BY <1>1, ExportInvariance, PTL

\* What the citizen can download has its document: it was written before the request
\* became ready and is disposed of only with the token or after the expiry
\* (cleanup_export_files, process_data_export).
THEOREM ReadyHasDocument == ExportSpec => []ReadyIsWhole
<1>1. ExportInv => ReadyIsWhole
  BY DEF ExportInv, ExportTypes, ExportRow, Written, DisposedLate, Downloadable, ReadyIsWhole
<1> QED
  BY <1>1, ExportInvariance, PTL

----------------------------------------------------------------------------
(* The hours of a volunteer: the inductive invariant.                      *)
HoursTypes ==
  /\ log \in [Logs -> LogStatuses]
  /\ total \in Nat /\ profileForm \subseteq Nat /\ unsummed \in BOOLEAN
  /\ approval \in [Approvers -> Approvals]
  /\ \A a \in Approvers : approval[a].pc # "record" => approval[a].due = {}

\* The lock of the profile is held by one approval.
OneUpdates ==
  \A a, b \in Approvers : approval[a].pc = "update" /\ approval[b].pc = "update" => a = b

\* Who will write the sum of the approved logs, or that it is written.
Summed ==
  \/ unsummed
  \/ \E a \in Approvers : approval[a].pc = "hook"
  \/ \E a \in Approvers : approval[a].pc = "update" /\ approval[a].new = HoursIn[Approved]
  \/ ~ProfileLocked /\ total = HoursIn[Approved]

Covered(t) ==
  \/ t \in milestones
  \/ t \in lost
  \/ \E a \in Approvers : t \in approval[a].due

\* A total once read was below every threshold that nobody has seen to.
Compared ==
  \A t \in Thresholds :
    /\ t <= total => Covered(t)
    /\ \A a \in Approvers : t <= approval[a].old => Covered(t)
    /\ \A read \in profileForm : t <= read => Covered(t)

HoursInv == HoursTypes /\ OneUpdates /\ Summed /\ Compared

\* The approved logs add up to a natural number (SUM of _recompute_total_hours).
LEMMA SumsAreNat == HoursTypes => HoursIn[Approved] \in Nat
  BY HoursAssumption DEF HoursTypes, Approved

----------------------------------------------------------------------------
(* The hours of a volunteer have their types: the total is a natural       *)
(* number, each log and each approval is in a known state (hours.py).      *)
LEMMA HoursTypesStep == HoursTypes /\ [HoursNext]_hoursVars => HoursTypes'
<1> SUFFICES ASSUME HoursTypes, [HoursNext]_hoursVars PROVE HoursTypes'
  OBVIOUS
<1> USE DEF HoursTypes, LogStatuses, Approvals, NoApproval
<1>1. ASSUME NEW l \in Logs, LogHours(l) \/ RejectHours(l) \/ FormOpens(l) PROVE HoursTypes'
  BY <1>1 DEF LogHours, RejectHours, FormOpens
<1>2. ASSUME NEW l \in Logs, NEW s \in LogStatuses \ {"none"}, FormStores(l, s) PROVE HoursTypes'
  BY <1>2 DEF FormStores
<1>3. ASSUME NEW a \in Approvers, NEW l \in Logs, ApproveHours(a, l) PROVE HoursTypes'
  BY <1>3 DEF ApproveHours
<1>4. ASSUME NEW a \in Approvers, ApprovalCommits(a) PROVE HoursTypes'
  BY <1>4 DEF ApprovalCommits
<1>5. ASSUME NEW a \in Approvers, SumHours(a) PROVE HoursTypes'
  BY <1>5, SumsAreNat DEF SumHours
<1>6. ASSUME NEW a \in Approvers, StoreTotal(a) PROVE HoursTypes'
  BY <1>6 DEF StoreTotal, Crossed
<1>7. ASSUME NEW a \in Approvers, NEW t \in Thresholds, RecordMilestone(a, t) PROVE HoursTypes'
  BY <1>7 DEF RecordMilestone
<1>8. ASSUME NEW a \in Approvers, ApprovalEnds(a) \/ WorkerLost(a) PROVE HoursTypes'
  <2>1. unsummed' \in BOOLEAN
    BY <1>8, Zenon DEF ApprovalEnds, WorkerLost
  <2>2. /\ approval' = [approval EXCEPT ![a] = NoApproval]
        /\ log' = log /\ total' = total /\ profileForm' = profileForm
    BY <1>8 DEF ApprovalEnds, WorkerLost
  <2> QED
    BY <2>1, <2>2
<1>9. CASE UNCHANGED hoursVars
  BY <1>9 DEF hoursVars
<1>10. CASE ProfileFormOpens
  BY <1>10 DEF ProfileFormOpens
<1>11. ASSUME NEW read \in profileForm, ProfileFormStores(read) PROVE HoursTypes'
  <2>1. unsummed' \in BOOLEAN
    BY <1>11, Zenon DEF ProfileFormStores
  <2>2. total' = read /\ profileForm' = {} /\ log' = log /\ approval' = approval
    BY <1>11 DEF ProfileFormStores
  <2> QED
    BY <2>1, <2>2
<1> QED
  BY <1>1, <1>2, <1>3, <1>4, <1>5, <1>6, <1>7, <1>8, <1>9, <1>10, <1>11 DEF HoursNext

----------------------------------------------------------------------------
(* A recomputation holds the lock of the profile from its sum to its       *)
(* update, so the sum it writes misses no approval that has had its hook   *)
(* (_recompute_total_hours).                                               *)
LEMMA SumStep == HoursTypes /\ OneUpdates /\ Summed /\ [HoursNext]_hoursVars => OneUpdates' /\ Summed'
<1> SUFFICES ASSUME HoursTypes, OneUpdates, Summed, [HoursNext]_hoursVars
             PROVE  OneUpdates' /\ Summed'
  OBVIOUS
<1> USE DEF HoursTypes, LogStatuses, Approvals, NoApproval, OneUpdates, Summed, ProfileLocked
<1>1. ASSUME NEW l \in Logs, LogHours(l) \/ RejectHours(l) \/ FormOpens(l)
      PROVE  OneUpdates' /\ Summed'
  <2>1. Approved' = Approved
    BY <1>1 DEF LogHours, RejectHours, FormOpens, Approved
  <2> QED
    BY <1>1, <2>1 DEF LogHours, RejectHours, FormOpens
<1>2. ASSUME NEW l \in Logs, NEW s \in LogStatuses \ {"none"}, FormStores(l, s)
      PROVE  OneUpdates' /\ Summed'
  BY <1>2 DEF FormStores
<1>3. ASSUME NEW a \in Approvers, NEW l \in Logs, ApproveHours(a, l)
      PROVE  OneUpdates' /\ Summed'
  <2>1. Approved' = Approved
    BY <1>3 DEF ApproveHours, Approved
  <2> QED
    BY <1>3, <2>1 DEF ApproveHours
<1>4. ASSUME NEW a \in Approvers, ApprovalCommits(a) PROVE OneUpdates' /\ Summed'
  <2>1. approval'[a].pc = "hook" /\ \A b \in Approvers \ {a} : approval'[b] = approval[b]
    BY <1>4 DEF ApprovalCommits
  <2> QED
    BY <2>1
<1>5. ASSUME NEW a \in Approvers, SumHours(a) PROVE OneUpdates' /\ Summed'
  <2>1. /\ approval'[a].pc = "update" /\ approval'[a].new = HoursIn[Approved]
        /\ \A b \in Approvers \ {a} : approval'[b] = approval[b] /\ approval[b].pc # "update"
        /\ Approved' = Approved
    BY <1>5 DEF SumHours, Approved
  <2> QED
    BY <2>1
<1>6. ASSUME NEW a \in Approvers, StoreTotal(a) PROVE OneUpdates' /\ Summed'
  <2>1. /\ approval[a].pc = "update" /\ approval'[a].pc = "record"
        /\ total' = approval[a].new /\ unsummed' = unsummed
        /\ \A b \in Approvers \ {a} : approval'[b] = approval[b] /\ approval[b].pc # "update"
        /\ Approved' = Approved
    BY <1>6 DEF StoreTotal, Approved
  <2> QED
    BY <2>1
<1>7. ASSUME NEW a \in Approvers, NEW t \in Thresholds, RecordMilestone(a, t)
      PROVE  OneUpdates' /\ Summed'
  <2>1. /\ \A b \in Approvers : approval'[b].pc = approval[b].pc /\ approval'[b].new = approval[b].new
        /\ Approved' = Approved /\ total' = total /\ unsummed' = unsummed
    BY <1>7 DEF RecordMilestone, Approved
  <2> QED
    BY <2>1
<1>8. ASSUME NEW a \in Approvers, ApprovalEnds(a) \/ WorkerLost(a) PROVE OneUpdates' /\ Summed'
  <2>1. /\ approval'[a].pc = "idle" /\ Approved' = Approved /\ total' = total
        /\ \A b \in Approvers \ {a} : approval'[b] = approval[b]
        /\ unsummed => unsummed'
        /\ approval[a].pc \in {"hook", "update"} => unsummed'
    <3>1. CASE ApprovalEnds(a)
      BY <3>1 DEF ApprovalEnds, Approved
    <3>2. CASE WorkerLost(a)
      BY <3>2 DEF WorkerLost, Approved
    <3> QED
      BY <1>8, <3>1, <3>2
  <2> QED
    BY <2>1
<1>9. CASE UNCHANGED hoursVars \/ ProfileFormOpens
  BY <1>9 DEF hoursVars, ProfileFormOpens, Approved
<1>10. ASSUME NEW read \in profileForm, ProfileFormStores(read) PROVE OneUpdates' /\ Summed'
  <2>1. approval' = approval /\ Approved' = Approved
    BY <1>10 DEF ProfileFormStores, Approved
  <2>2. unsummed' \/ (total' = total /\ unsummed' = unsummed)
    BY <1>10, Zenon DEF ProfileFormStores
  <2> QED
    BY <2>1, <2>2, <1>10 DEF ProfileFormStores
<1> QED
  BY <1>1, <1>2, <1>3, <1>4, <1>5, <1>6, <1>7, <1>8, <1>9, <1>10 DEF HoursNext

----------------------------------------------------------------------------
(* What has been seen to stays so: a milestone or a loss is never taken    *)
(* back, and what is due becomes one of them.                              *)
LEMMA CoveredStays ==
  ASSUME HoursTypes, [HoursNext]_hoursVars, NEW t \in Thresholds, Covered(t)
  PROVE  Covered(t)'
<1> USE DEF HoursTypes, Approvals, NoApproval, Covered
<1>1. ASSUME NEW l \in Logs, LogHours(l) \/ RejectHours(l) \/ FormOpens(l) PROVE Covered(t)'
  BY <1>1 DEF LogHours, RejectHours, FormOpens
<1>2. ASSUME NEW l \in Logs, NEW s \in LogStatuses \ {"none"}, FormStores(l, s) PROVE Covered(t)'
  BY <1>2 DEF FormStores
<1>3. ASSUME NEW a \in Approvers, NEW l \in Logs, ApproveHours(a, l) PROVE Covered(t)'
  BY <1>3 DEF ApproveHours
<1>4. ASSUME NEW a \in Approvers, ApprovalCommits(a) \/ SumHours(a) PROVE Covered(t)'
  BY <1>4 DEF ApprovalCommits, SumHours
<1>5. ASSUME NEW a \in Approvers, StoreTotal(a) PROVE Covered(t)'
  BY <1>5 DEF StoreTotal
<1>6. ASSUME NEW a \in Approvers, NEW u \in Thresholds, RecordMilestone(a, u) PROVE Covered(t)'
  BY <1>6 DEF RecordMilestone
<1>7. ASSUME NEW a \in Approvers, ApprovalEnds(a) \/ WorkerLost(a) PROVE Covered(t)'
  BY <1>7 DEF ApprovalEnds, WorkerLost
<1>8. CASE UNCHANGED <<milestones, lost, approval>>
  BY <1>8
<1> QED
  BY <1>1, <1>2, <1>3, <1>4, <1>5, <1>6, <1>7, <1>8
  DEF HoursNext, ProfileFormOpens, ProfileFormStores, hoursVars

----------------------------------------------------------------------------
(* A threshold is crossed by the update that stores the total, and the     *)
(* approval that stores it compares with a total it read before: either    *)
(* that was below, and it records the threshold, or it was not, and who    *)
(* crossed it earlier has seen to it (_check_milestones).                  *)
LEMMA CrossStep == HoursTypes /\ Compared /\ [HoursNext]_hoursVars => Compared'
<1> SUFFICES ASSUME HoursTypes, Compared, [HoursNext]_hoursVars, NEW t \in Thresholds
             PROVE  /\ t <= total' => Covered(t)'
                    /\ \A a \in Approvers : t <= approval'[a].old => Covered(t)'
                    /\ \A read \in profileForm' : t <= read => Covered(t)'
  BY DEF Compared
<1>0. t \in Nat \ {0} /\ (Covered(t) => Covered(t)')
  BY CoveredStays, HoursAssumption
<1>1. ASSUME NEW a \in Approvers, StoreTotal(a), t <= approval[a].new, ~Covered(t) PROVE Covered(t)'
  <2>1. ~(t <= approval[a].old) /\ approval[a].old \in Nat
    BY <1>1 DEF Compared, HoursTypes, Approvals
  <2>2. t \in approval'[a].due
    BY <1>0, <1>1, <2>1 DEF StoreTotal, Crossed, HoursTypes, NoApproval
  <2> QED
    BY <2>2 DEF Covered
<1>2. ASSUME t <= total' PROVE Covered(t)'
  <2>1. CASE total' = total
    BY <1>0, <1>2, <2>1 DEF Compared
  <2>2. ASSUME NEW a \in Approvers, StoreTotal(a) PROVE Covered(t)'
    BY <1>0, <1>1, <1>2, <2>2 DEF StoreTotal
  <2>3. ASSUME NEW read \in profileForm, ProfileFormStores(read) PROVE Covered(t)'
    BY <1>0, <1>2, <2>3 DEF ProfileFormStores, Compared
  <2> QED
    BY <2>1, <2>2, <2>3 DEF HoursNext, ProfileFormOpens, LogHours, RejectHours, FormOpens, FormStores, ApproveHours,
      ApprovalCommits, SumHours, RecordMilestone, ApprovalEnds, WorkerLost, hoursVars
<1>3. ASSUME NEW a \in Approvers, t <= approval'[a].old PROVE Covered(t)'
  <2> DEFINE OldIs(b) == approval'[b].old \in {approval[b].old, total, 0}
  <2>1. OldIs(a)
    <3> USE DEF HoursTypes, Approvals, NoApproval
    <3>1. CASE approval' = approval
      BY <3>1
    <3>2. ASSUME NEW b \in Approvers, NEW l \in Logs, ApproveHours(b, l) PROVE OldIs(a)
      BY <3>2 DEF ApproveHours
    <3>3. ASSUME NEW b \in Approvers, ApprovalCommits(b) \/ SumHours(b) PROVE OldIs(a)
      BY <3>3 DEF ApprovalCommits, SumHours
    <3>4. ASSUME NEW b \in Approvers, StoreTotal(b) PROVE OldIs(a)
      BY <3>4 DEF StoreTotal
    <3>5. ASSUME NEW b \in Approvers, NEW u \in Thresholds, RecordMilestone(b, u) PROVE OldIs(a)
      BY <3>5 DEF RecordMilestone
    <3>6. ASSUME NEW b \in Approvers, ApprovalEnds(b) \/ WorkerLost(b) PROVE OldIs(a)
      BY <3>6 DEF ApprovalEnds, WorkerLost
    <3> QED
      BY <3>1, <3>2, <3>3, <3>4, <3>5, <3>6 DEF HoursNext, LogHours, RejectHours, FormOpens,
        FormStores, ProfileFormOpens, ProfileFormStores, hoursVars
  <2> QED
    BY <1>0, <1>3, <2>1 DEF Compared
<1>4. ASSUME NEW read \in profileForm', t <= read PROVE Covered(t)'
  <2>1. profileForm' \subseteq profileForm \cup {total}
    BY DEF HoursNext, LogHours, RejectHours, FormOpens, FormStores, ProfileFormOpens,
      ProfileFormStores, ApproveHours, ApprovalCommits, SumHours, StoreTotal, RecordMilestone,
      ApprovalEnds, WorkerLost, hoursVars
  <2> QED
    BY <1>0, <1>4, <2>1 DEF Compared
<1> QED
  BY <1>2, <1>3, <1>4

----------------------------------------------------------------------------
\* A volunteer without logs, total or milestones satisfies the invariant (hours.py).
LEMMA HoursInvInit == HoursInit => HoursInv
<1> SUFFICES ASSUME HoursInit PROVE HoursInv
  OBVIOUS
<1>1. Approved = {} /\ ~ProfileLocked
  BY DEF HoursInit, Approved, ProfileLocked, NoApproval
<1>2. HoursTypes /\ OneUpdates
  BY DEF HoursInit, HoursTypes, OneUpdates, LogStatuses, Approvals, NoApproval
<1>3. Summed
  BY <1>1, HoursAssumption DEF HoursInit, Summed
<1>4. Compared
  BY HoursAssumption DEF HoursInit, Compared, NoApproval
<1> QED
  BY <1>2, <1>3, <1>4 DEF HoursInv

\* Logs, approvals, hooks, lost workers and forms keep the invariant (hours.py, admin.py).
LEMMA HoursInvStep == HoursInv /\ [HoursNext]_hoursVars => HoursInv'
  BY HoursTypesStep, SumStep, CrossStep DEF HoursInv

\* Every behaviour keeps the invariant the two theorems below follow from (hours.py).
THEOREM HoursInvariant == HoursSpec => []HoursInv
  BY HoursInvInit, HoursInvStep, PTL DEF HoursSpec

\* The stored total is the sum of the approved logs unless a recomputation is to come,
\* for any number of logs, approvals and lost workers (_recompute_total_hours).
THEOREM TotalApproved == HoursSpec => []TotalIsApproved
<1>1. HoursInv => TotalIsApproved
  BY DEF HoursInv, Summed, TotalIsApproved
<1> QED
  BY <1>1, HoursInvariant, PTL

\* No threshold is passed by without its milestone, for any thresholds and any
\* interleaving of approvals (_check_milestones).
THEOREM CrossedMarked == HoursSpec => []CrossedIsMarked
<1>1. HoursInv => CrossedIsMarked
  BY DEF HoursInv, Compared, Covered, CrossedIsMarked
<1> QED
  BY <1>1, HoursInvariant, PTL

----------------------------------------------------------------------------
\* What the emptiness of a cancelled shift rests on: the rows have their fields.
ShiftRows ==
  /\ shift \in Shifts
  /\ form \in [Staff -> Shifts \cup {NoForm}]
  /\ DOMAIN booking = Volunteers
  /\ \A v \in Volunteers :
       booking[v] = [status |-> booking[v].status, position |-> booking[v].position]

EmptyInv == ShiftRows /\ CancelledIsEmpty

\* Every service and the form write whole rows (scheduling.py, ShiftAdmin).
LEMMA ShiftRowsStep == ShiftRows /\ [ShiftNext]_shiftVars => ShiftRows'
<1> SUFFICES ASSUME ShiftRows, [ShiftNext]_shiftVars PROVE ShiftRows'
  OBVIOUS
<1> USE DEF ShiftRows, Shifts, NoForm
<1>1. CASE UNCHANGED <<shift, form, booking>>
  BY <1>1
<1>2. ASSUME NEW v \in Volunteers, BookCommits(v) PROVE ShiftRows'
  BY <1>2 DEF BookCommits, Confirm, Wait, TurnAway, formVars
<1>3. ASSUME NEW v \in Volunteers, CancelBooking(v) PROVE ShiftRows'
  BY <1>3 DEF CancelBooking, Drop, formVars
<1>4. ASSUME NEW v \in Volunteers, MarkNoShow(v) \/ CompleteBooking(v) PROVE ShiftRows'
  BY <1>4 DEF MarkNoShow, CompleteBooking, Marked, formVars
<1>5. CASE CancelShift
  BY <1>5 DEF CancelShift, formVars
<1>6. ASSUME NEW s \in Staff, FormReads(s) PROVE ShiftRows'
  BY <1>6 DEF FormReads
<1>7. ASSUME NEW s \in Staff, NEW c \in Capacities, NEW w \in BOOLEAN, FormSaves(s, c, w)
      PROVE  ShiftRows'
  BY <1>7 DEF FormSaves
<1> QED
  BY <1>1, <1>2, <1>3, <1>4, <1>5, <1>6, <1>7
  DEF ShiftNext, shiftVars, BookShift, Clock, formVars

\* Whoever is confirmed or waits after a step did before it, unless book_shift has just
\* checked that the shift is not cancelled.
LEMMA EmptyStep == EmptyInv /\ [ShiftNext]_shiftVars => CancelledIsEmpty'
<1> SUFFICES ASSUME EmptyInv, [ShiftNext]_shiftVars PROVE CancelledIsEmpty'
  OBVIOUS
<1> USE DEF EmptyInv, CancelledIsEmpty, Confirmed, Waitlisted, With
<1>1. CASE UNCHANGED <<shift, booking, stale>>
  BY <1>1
<1>2. ASSUME NEW v \in Volunteers, BookCommits(v) PROVE CancelledIsEmpty'
  BY <1>2 DEF BookCommits, Confirm, Wait, TurnAway, Bookable, formVars
<1>3. ASSUME NEW v \in Volunteers, CancelBooking(v) PROVE CancelledIsEmpty'
  BY <1>3 DEF CancelBooking, formVars
<1>4. ASSUME NEW v \in Volunteers, MarkNoShow(v) \/ CompleteBooking(v) PROVE CancelledIsEmpty'
  BY <1>4 DEF MarkNoShow, CompleteBooking, Marked, ShiftRows, formVars
<1>5. CASE CancelShift
  BY <1>5 DEF CancelShift, ShiftRows
<1>6. ASSUME NEW s \in Staff, NEW c \in Capacities, NEW w \in BOOLEAN, FormSaves(s, c, w)
      PROVE  CancelledIsEmpty'
  BY <1>6 DEF FormSaves, ShiftRows, Shifts, NoForm
<1> QED
  BY <1>1, <1>2, <1>3, <1>4, <1>5, <1>6
  DEF ShiftNext, shiftVars, BookShift, FormReads, Clock, formVars

\* A shift that is cancelled has nobody on it, for any volunteers, capacities and
\* interleaving of bookings with the cancellation (cancel_shift, book_shift).
THEOREM CancelledEmpty == ShiftSpec => []CancelledIsEmpty
<1>1. ShiftInit => EmptyInv
  <2> SUFFICES ASSUME ShiftInit PROVE EmptyInv
    OBVIOUS
  <2>1. shift \in Shifts /\ shift.cancelled = FALSE
    BY DEF ShiftInit, Shifts
  <2>2. form \in [Staff -> Shifts \cup {NoForm}]
    BY DEF ShiftInit
  <2>3. ShiftRows
    BY <2>1, <2>2 DEF ShiftInit, ShiftRows, NoBooking
  <2> QED
    BY <2>1, <2>3 DEF EmptyInv, CancelledIsEmpty
<1>2. EmptyInv /\ [ShiftNext]_shiftVars => EmptyInv'
  BY ShiftRowsStep, EmptyStep DEF EmptyInv
<1>3. EmptyInv => CancelledIsEmpty
  BY DEF EmptyInv
<1> QED
  BY <1>1, <1>2, <1>3, PTL DEF ShiftSpec

----------------------------------------------------------------------------
(* The places of a shift and the order of its waitlist.                    *)
ShiftStatuses == {"none", "confirmed", "waitlisted", "cancelled", "no_show", "completed"}

\* The rows of the volunteers, and the capacities the shift has had.
ShiftTypes ==
  /\ booking \in [Volunteers -> [status: ShiftStatuses, position: Nat]]
  /\ IsFiniteSet(sizes) /\ sizes \subseteq Nat
  /\ shift.capacity \in sizes
  /\ ~closed => shift.waitlist
  /\ ahead \in [Volunteers -> SUBSET Volunteers]

\* The positions grow with the time of joining.
QueueInOrder ==
  \A v \in Waitlisted : \A u \in ahead[v] :
    u \in Waitlisted /\ booking[u].position < booking[v].position

PlacesInv == ShiftRows /\ ShiftTypes /\ PlacesAreShared /\ QueueInOrder

\* A finite set of natural numbers has a largest and a smallest one (Max and Min of
\* the capacities, Max of the positions).
LEMMA LargestSmallest ==
  ASSUME NEW S \in SUBSET Nat, IsFiniteSet(S), S # {}
  PROVE  /\ Max(S) \in S /\ \A y \in S : y <= Max(S)
         /\ Min(S) \in S /\ \A y \in S : Min(S) <= y
<1> DEFINE below(x) == {y \in S : y < x}
           above(x) == {y \in S : x < y}
<1>1. IsWellFoundedOn(StrictSubsetOrdering(S), SUBSET S)
  BY FS_StrictSubsetOrderingWellFounded, FS_FiniteSubsetsOfFinite
<1>2. PICK x \in S : \A y \in S : <<below(y), below(x)>> \notin StrictSubsetOrdering(S)
  <2> DEFINE F == {below(x_1) : x_1 \in S}
  <2>1. F \subseteq SUBSET S /\ F # {} OBVIOUS
  <2>2. PICK m \in F : \A n \in F : <<n, m>> \notin StrictSubsetOrdering(S)
    <3> HIDE DEF F
    <3> QED BY <1>1, <2>1, WFMin
  <2> QED BY <2>2
<1>3. PICK z \in S : \A y \in S : <<above(y), above(z)>> \notin StrictSubsetOrdering(S)
  <2> DEFINE F == {above(x_1) : x_1 \in S}
  <2>1. F \subseteq SUBSET S /\ F # {} OBVIOUS
  <2>2. PICK m \in F : \A n \in F : <<n, m>> \notin StrictSubsetOrdering(S)
    <3> HIDE DEF F
    <3> QED BY <1>1, <2>1, WFMin
  <2> QED BY <2>2
<1>4. \A t \in S : t \in Nat OBVIOUS
<1>5. ASSUME NEW y \in S PROVE x <= y
  <2>1. SUFFICES ASSUME y < x PROVE FALSE BY <1>4
  <2>2. y \in below(x) /\ y \notin below(y)
    BY <2>1, <1>4
  <2>3. ASSUME NEW t \in S, t < y PROVE t < x
    BY <2>1, <2>3, <1>4
  <2> QED BY <1>2, <2>2, <2>3 DEF StrictSubsetOrdering
<1>6. ASSUME NEW y \in S PROVE z >= y
  <2>1. SUFFICES ASSUME z < y PROVE FALSE BY <1>4
  <2>2. y \in above(z) /\ y \notin above(y)
    BY <2>1, <1>4
  <2>3. ASSUME NEW t \in S, y < t PROVE z < t
    BY <2>1, <2>3, <1>4
  <2> QED BY <1>3, <2>2, <2>3 DEF StrictSubsetOrdering
<1>7. Max(S) \in S /\ \A y \in S : Max(S) >= y
  BY <1>6 DEF Max
<1>8. Min(S) \in S /\ \A y \in S : Min(S) <= y
  BY <1>5 DEF Min
<1> QED BY <1>4, <1>7, <1>8

\* The counts of book_shift are of finite sets.
LEMMA Counted ==
  /\ IsFiniteSet(Confirmed) /\ Cardinality(Confirmed) \in Nat
  /\ IsFiniteSet(Waitlisted)
BY ShiftAssumption, FS_Subset, FS_CardinalityType DEF Confirmed, Waitlisted, With

\* Whoever joins now stands behind everybody who waits (next_pos).
LEMMA NextIsLast ==
  ASSUME ShiftTypes
  PROVE  NextPosition \in Nat /\ \A w \in Waitlisted : booking[w].position < NextPosition
<1> DEFINE held == {booking[w].position : w \in Waitlisted}
           place == [w \in Waitlisted |-> booking[w].position]
<1>1. held \subseteq Nat
  BY DEF ShiftTypes, Waitlisted, With
<1>2. place \in Surjection(Waitlisted, held)
  BY DEF Surjection
<1>3. IsFiniteSet(held \cup {0})
  <2> HIDE DEF held, place
  <2> QED BY <1>2, Counted, FS_Surjection, FS_AddElement
<1>4. \A y \in held \cup {0} : y <= Max(held \cup {0}) /\ Max(held \cup {0}) \in Nat
  <2>1. held \cup {0} \in SUBSET Nat /\ held \cup {0} # {}
    BY <1>1
  <2> HIDE DEF held
  <2> QED BY <2>1, <1>3, LargestSmallest
<1>5. NextPosition = Max(held \cup {0}) + 1
  BY DEF NextPosition
<1>6. \A w \in Waitlisted : booking[w].position \in held OBVIOUS
<1> HIDE DEF held
<1> DEFINE last == Max(held \cup {0})
<1>7. last \in Nat /\ NextPosition = last + 1 /\ \A y \in held : y \in Nat /\ y <= last
  BY <1>1, <1>4, <1>5
<1> HIDE DEF last
<1> QED BY <1>6, <1>7

\* Every service writes whole rows, and a capacity that is stored has been stored.
LEMMA ShiftTypesStep ==
  ASSUME ShiftRows, ShiftTypes, [ShiftNext]_shiftVars
  PROVE  ShiftTypes'
<1>t. {"none", "confirmed", "waitlisted", "cancelled", "no_show", "completed"} \subseteq ShiftStatuses
  BY DEF ShiftStatuses
<1>w. Waitlisted \subseteq Volunteers /\ \A v : Left(v) \in [Volunteers -> SUBSET Volunteers]
  BY DEF Left, Waitlisted, With, ShiftTypes
<1>1. CASE UNCHANGED <<shift, booking, sizes, closed, ahead>>
  BY <1>1 DEF ShiftTypes
<1>2. ASSUME UNCHANGED <<shift, sizes, closed>>,
             booking' \in [Volunteers -> [status: ShiftStatuses, position: Nat]],
             ahead' \in [Volunteers -> SUBSET Volunteers]
      PROVE  ShiftTypes'
  BY <1>2 DEF ShiftTypes
<1>3. ASSUME NEW v \in Volunteers, BookCommits(v) PROVE ShiftTypes'
  <2>1. UNCHANGED <<shift, sizes, closed>>
    BY <1>3 DEF BookCommits, formVars
  <2>2. CASE Confirm(v)
    BY <2>1, <2>2, <1>2, <1>t DEF Confirm, ShiftTypes
  <2>3. CASE Wait(v)
    <3>1. booking' \in [Volunteers -> [status: ShiftStatuses, position: Nat]]
      BY <2>3, <1>t, NextIsLast DEF Wait, ShiftTypes
    <3>2. ahead' \in [Volunteers -> SUBSET Volunteers]
      BY <2>3, <1>w DEF Wait, ShiftTypes
    <3> QED BY <2>1, <3>1, <3>2, <1>2
  <2>4. CASE TurnAway(v)
    BY <2>1, <2>4, <1>1 DEF TurnAway
  <2> QED BY <1>3, <2>2, <2>3, <2>4 DEF BookCommits
<1>4. ASSUME NEW v \in Volunteers, CancelBooking(v) PROVE ShiftTypes'
  <2>1. UNCHANGED <<shift, sizes, closed>>
    BY <1>4 DEF CancelBooking, formVars
  <2>2. Drop(v) \in [Volunteers -> [status: ShiftStatuses, position: Nat]]
    BY <1>t DEF Drop, ShiftTypes
  <2>3. booking' \in [Volunteers -> [status: ShiftStatuses, position: Nat]]
    BY <1>4, <2>2, <1>t DEF CancelBooking
  <2>4. ahead' \in [Volunteers -> SUBSET Volunteers]
    BY <1>4, <1>w DEF CancelBooking
  <2> QED BY <2>1, <2>3, <2>4, <1>2
<1>5. ASSUME NEW v \in Volunteers, MarkNoShow(v) \/ CompleteBooking(v) PROVE ShiftTypes'
  <2>1. UNCHANGED <<shift, sizes, closed, ahead>>
    BY <1>5 DEF MarkNoShow, CompleteBooking, Marked, formVars
  <2>2. booking' \in [Volunteers -> [status: ShiftStatuses, position: Nat]]
    BY <1>5, <1>t DEF MarkNoShow, CompleteBooking, Marked, ShiftTypes
  <2> QED BY <2>1, <2>2 DEF ShiftTypes
<1>6. CASE CancelShift
  <2>1. booking' \in [Volunteers -> [status: ShiftStatuses, position: Nat]]
    BY <1>6, <1>t DEF CancelShift, ShiftTypes
  <2>2. shift'.capacity = shift.capacity /\ shift'.waitlist = shift.waitlist
    BY <1>6 DEF CancelShift, ShiftRows, Shifts
  <2> QED BY <1>6, <2>1, <2>2 DEF CancelShift, formVars, ShiftTypes
<1>7. ASSUME NEW s \in Staff, NEW c \in Capacities, NEW w \in BOOLEAN, FormSaves(s, c, w)
      PROVE  ShiftTypes'
  <2>1. shift'.capacity = c /\ shift'.waitlist = w
    BY <1>7 DEF FormSaves, ShiftRows, Shifts, NoForm
  <2>2. IsFiniteSet(sizes \cup {c}) /\ c \in Nat
    BY FS_AddElement, ShiftAssumption DEF ShiftTypes
  <2>3. closed' = (closed \/ ~w)
    BY <1>7 DEF FormSaves
  <2>4. /\ booking' = booking /\ ahead' = ahead /\ sizes' = sizes \cup {c}
    BY <1>7 DEF FormSaves
  <2>5. ~closed' => shift'.waitlist
    BY <2>1, <2>3
  <2> QED BY <2>1, <2>2, <2>4, <2>5 DEF ShiftTypes
<1> QED
  BY <1>1, <1>3, <1>4, <1>5, <1>6, <1>7
  DEF ShiftNext, shiftVars, BookShift, FormReads, Clock, formVars

\* Who is confirmed and who waits after each operation.
LEMMA Moves ==
  ASSUME ShiftTypes, NEW v \in Volunteers
  PROVE  /\ Confirm(v) => v \notin Confirmed /\ Confirmed' = Confirmed \cup {v} /\ Waitlisted' = Waitlisted
         /\ Wait(v) => v \notin Waitlisted /\ Confirmed' = Confirmed /\ Waitlisted' = Waitlisted \cup {v}
         /\ MarkNoShow(v) \/ CompleteBooking(v) =>
              Confirmed' = Confirmed \ {v} /\ Waitlisted' = Waitlisted
         /\ CancelBooking(v) /\ ~Promotes(v) =>
              /\ Confirmed' = Confirmed \ {v} /\ Waitlisted' = Waitlisted \ {v}
              /\ ahead' = Left(v)
         /\ CancelBooking(v) /\ Promotes(v) =>
              \E w \in NextUp :
                /\ v \in Confirmed /\ v # w /\ w \in Waitlisted \ Confirmed
                /\ Confirmed' = (Confirmed \ {v}) \cup {w} /\ Waitlisted' = Waitlisted \ {w}
                /\ ahead' = Left(w)
                /\ \A u \in Waitlisted \ {w} : booking'[u] = booking[u]
         /\ CancelBooking(v) => \A u \in Waitlisted' : booking'[u] = booking[u]
<1> USE DEF ShiftTypes, Confirmed, Waitlisted, With
<1>1. Confirm(v) => v \notin Confirmed /\ Confirmed' = Confirmed \cup {v} /\ Waitlisted' = Waitlisted
  BY DEF Confirm, Bookable, NoBooking
<1>2. Wait(v) => v \notin Waitlisted /\ Confirmed' = Confirmed /\ Waitlisted' = Waitlisted \cup {v}
  <2> SUFFICES ASSUME Wait(v)
               PROVE  v \notin Waitlisted /\ Confirmed' = Confirmed /\ Waitlisted' = Waitlisted \cup {v}
    OBVIOUS
  <2>1. booking' = [booking EXCEPT ![v] = [status |-> "waitlisted", position |-> NextPosition]]
        /\ booking[v].status = "none"
    BY DEF Wait, Bookable, NoBooking
  <2> QED BY <2>1
<1>3. MarkNoShow(v) \/ CompleteBooking(v) => Confirmed' = Confirmed \ {v} /\ Waitlisted' = Waitlisted
  BY DEF MarkNoShow, CompleteBooking, Marked
<1>4. CancelBooking(v) /\ ~Promotes(v) =>
        /\ Confirmed' = Confirmed \ {v} /\ Waitlisted' = Waitlisted \ {v}
        /\ ahead' = Left(v)
        /\ \A u \in Waitlisted' : booking'[u] = booking[u]
  <2> SUFFICES ASSUME CancelBooking(v), ~Promotes(v)
               PROVE  /\ Confirmed' = Confirmed \ {v} /\ Waitlisted' = Waitlisted \ {v}
                      /\ ahead' = Left(v)
                      /\ \A u \in Waitlisted' : booking'[u] = booking[u]
    OBVIOUS
  <2>1. booking' = [booking EXCEPT ![v].status = "cancelled"] /\ ahead' = Left(v)
    BY DEF CancelBooking, Drop
  <2> QED BY <2>1
<1>5. ASSUME CancelBooking(v), Promotes(v)
      PROVE  \E w \in NextUp :
                /\ v \in Confirmed /\ v # w /\ w \in Waitlisted \ Confirmed
                /\ Confirmed' = (Confirmed \ {v}) \cup {w} /\ Waitlisted' = Waitlisted \ {w}
                /\ ahead' = Left(w)
                /\ \A u \in Waitlisted \ {w} : booking'[u] = booking[u]
  <2>1. PICK w \in NextUp :
          /\ booking' = [Drop(v) EXCEPT ![w] = [status |-> "confirmed", position |-> 0]]
          /\ ahead' = Left(w)
    BY <1>5 DEF CancelBooking
  <2>2. v \in Confirmed /\ w \in Waitlisted /\ v # w /\ w \notin Confirmed /\ w \in Volunteers
    BY <1>5 DEF Promotes, NextUp
  <2>3. /\ booking'[v].status = "cancelled" /\ booking'[w].status = "confirmed"
        /\ \A u \in Volunteers \ {v, w} : booking'[u] = booking[u]
    BY <2>1, <2>2 DEF Drop
  <2>4. Confirmed' = (Confirmed \ {v}) \cup {w} /\ Waitlisted' = Waitlisted \ {w}
    BY <2>2, <2>3
  <2>5. \A u \in Waitlisted \ {w} : booking'[u] = booking[u]
    BY <2>2, <2>3
  <2> QED BY <2>1, <2>2, <2>4, <2>5
<1> HIDE DEF ShiftTypes, Confirmed, Waitlisted, With
<1>6. CancelBooking(v) => \A u \in Waitlisted' : booking'[u] = booking[u]
  BY <1>4, <1>5
<1> QED BY <1>1, <1>2, <1>3, <1>4, <1>5, <1>6

\* One operation on the confirmed volunteers changes their number by at most one.
LEMMA NumbersMove ==
  ASSUME NEW v
  PROVE  /\ v \notin Confirmed => Cardinality(Confirmed \cup {v}) = Cardinality(Confirmed) + 1
         /\ Cardinality(Confirmed \ {v}) <= Cardinality(Confirmed)
         /\ Cardinality(Confirmed \ {v}) \in Nat
         /\ \A w : v \in Confirmed /\ w \notin Confirmed =>
              Cardinality((Confirmed \ {v}) \cup {w}) = Cardinality(Confirmed)
<1>1. v \notin Confirmed => Cardinality(Confirmed \cup {v}) = Cardinality(Confirmed) + 1
  BY Counted, FS_AddElement
<1>2. IsFiniteSet(Confirmed \ {v})
      /\ Cardinality(Confirmed \ {v}) = IF v \in Confirmed THEN Cardinality(Confirmed) - 1 ELSE Cardinality(Confirmed)
  BY Counted, FS_RemoveElement
<1>3. Cardinality(Confirmed \ {v}) \in Nat
  BY <1>2, FS_CardinalityType
<1>4. ASSUME NEW w, v \in Confirmed, w \notin Confirmed
      PROVE  Cardinality((Confirmed \ {v}) \cup {w}) = Cardinality(Confirmed)
  <2>1. w \notin Confirmed \ {v} BY <1>4
  <2>2. Cardinality((Confirmed \ {v}) \cup {w}) = Cardinality(Confirmed \ {v}) + 1
    BY <2>1, <1>2, FS_AddElement
  <2> QED BY <2>2, <1>2, <1>4, Counted
<1> QED BY <1>1, <1>2, <1>3, <1>4, Counted

\* A capacity that is stored lies between the smallest and the largest there have been.
LEMMA BetweenSizes ==
  ASSUME ShiftTypes
  PROVE  /\ Min(sizes) \in Nat /\ Max(sizes) \in Nat /\ shift.capacity \in Nat
         /\ Min(sizes) <= shift.capacity /\ shift.capacity <= Max(sizes)
BY LargestSmallest DEF ShiftTypes

\* Who is confirmed had a place, and whoever waits does so because there was none.
LEMMA PlacesStep ==
  ASSUME ShiftTypes, PlacesAreShared, [ShiftNext]_shiftVars
  PROVE  PlacesAreShared'
<1> DEFINE Bounds == /\ Min(sizes) \in Nat /\ Max(sizes) \in Nat /\ shift.capacity \in Nat
                     /\ Min(sizes) <= shift.capacity /\ shift.capacity <= Max(sizes)
                     /\ Cardinality(Confirmed) \in Nat
<1>b. Bounds
  BY BetweenSizes, Counted
<1>1. CASE UNCHANGED <<booking, sizes, closed, phase>>
  BY <1>1 DEF PlacesAreShared, Confirmed, Waitlisted, With
<1>2. ASSUME NEW v \in Volunteers, BookCommits(v) PROVE PlacesAreShared'
  <2>1. UNCHANGED <<sizes, closed, phase, shift>>
    BY <1>2 DEF BookCommits, formVars
  <2>2. CASE Confirm(v)
    <3>1. /\ Cardinality(Confirmed)' = Cardinality(Confirmed) + 1
          /\ Cardinality(Confirmed) < shift.capacity /\ Waitlisted' = Waitlisted
      BY <2>2, Moves, NumbersMove DEF Confirm, HasPlace
    <3> QED BY <2>1, <3>1, <1>b DEF PlacesAreShared
  <2>3. CASE Wait(v)
    <3>1. /\ Cardinality(Confirmed)' = Cardinality(Confirmed)
          /\ ~(Cardinality(Confirmed) < shift.capacity)
      BY <2>3, Moves DEF Wait, HasPlace
    <3> QED BY <2>1, <3>1, <1>b DEF PlacesAreShared
  <2>4. CASE TurnAway(v)
    BY <2>1, <2>4, <1>1 DEF TurnAway
  <2> QED BY <1>2, <2>2, <2>3, <2>4 DEF BookCommits
<1>3. ASSUME NEW v \in Volunteers, CancelBooking(v) PROVE PlacesAreShared'
  <2>1. UNCHANGED <<sizes, closed, phase, shift>>
    BY <1>3 DEF CancelBooking, formVars
  <2>2. CASE Promotes(v)
    <3>1. Cardinality(Confirmed)' = Cardinality(Confirmed) /\ Waitlisted' \subseteq Waitlisted
      <4>1. PICK w \in NextUp :
              /\ v \in Confirmed /\ w \notin Confirmed
              /\ Confirmed' = (Confirmed \ {v}) \cup {w} /\ Waitlisted' = Waitlisted \ {w}
        BY <1>3, <2>2, Moves
      <4> QED BY <4>1, NumbersMove
    <3> QED BY <2>1, <3>1, <1>b DEF PlacesAreShared
  <2>3. CASE ~Promotes(v)
    <3>1. Confirmed' = Confirmed \ {v} /\ Waitlisted' = Waitlisted \ {v}
      BY <1>3, <2>3, Moves
    <3>2. /\ Cardinality(Confirmed)' <= Cardinality(Confirmed)
          /\ Cardinality(Confirmed)' \in Nat
      BY <3>1, NumbersMove
    <3>3. v \notin Confirmed \/ closed \/ Waitlisted = {}
      BY <2>3 DEF Promotes, ShiftTypes, Confirmed, With
    <3>4. v \notin Confirmed => Cardinality(Confirmed)' = Cardinality(Confirmed)
      <4>1. v \notin Confirmed => Confirmed \ {v} = Confirmed OBVIOUS
      <4> QED BY <4>1, <3>1
    <3> QED BY <2>1, <3>1, <3>2, <3>3, <3>4, <1>b DEF PlacesAreShared
  <2> QED BY <2>2, <2>3
<1>4. ASSUME NEW v \in Volunteers, MarkNoShow(v) \/ CompleteBooking(v) PROVE PlacesAreShared'
  <2>1. UNCHANGED <<sizes, closed, phase, shift>> /\ phase # "before"
    BY <1>4 DEF MarkNoShow, CompleteBooking, Marked, formVars
  <2>2. /\ Cardinality(Confirmed)' <= Cardinality(Confirmed)
        /\ Cardinality(Confirmed)' \in Nat
    BY <1>4, Moves, NumbersMove
  <2> QED BY <2>1, <2>2, <1>b DEF PlacesAreShared
<1>5. CASE CancelShift
  <2>1. Confirmed' = {} /\ Waitlisted' = {}
    BY <1>5 DEF CancelShift, Confirmed, Waitlisted, With, ShiftTypes
  <2>2. Cardinality(Confirmed)' = 0
    BY <2>1, FS_EmptySet
  <2>3. sizes' = sizes
    BY <1>5 DEF CancelShift, formVars
  <2> QED BY <2>1, <2>2, <2>3, <1>b DEF PlacesAreShared
<1>6. ASSUME NEW s \in Staff, NEW c \in Capacities, NEW w \in BOOLEAN, FormSaves(s, c, w)
      PROVE  PlacesAreShared'
  <2>1. /\ sizes' = sizes \cup {c} /\ UNCHANGED <<booking, phase>>
        /\ ~closed' => ~closed
    BY <1>6 DEF FormSaves
  <2>2. /\ sizes \in SUBSET Nat /\ IsFiniteSet(sizes) /\ sizes # {}
        /\ sizes \cup {c} \in SUBSET Nat /\ IsFiniteSet(sizes \cup {c})
    BY FS_AddElement, ShiftAssumption DEF ShiftTypes
  <2>3. /\ Min(sizes) \in sizes /\ Max(sizes) \in sizes
        /\ \A y \in sizes \cup {c} : Min(sizes \cup {c}) <= y /\ y <= Max(sizes \cup {c})
        /\ Min(sizes \cup {c}) \in Nat /\ Max(sizes \cup {c}) \in Nat
    BY <2>2, LargestSmallest
  <2>4. Min(sizes') <= Min(sizes) /\ Max(sizes) <= Max(sizes') /\ Min(sizes') \in Nat /\ Max(sizes') \in Nat
    BY <2>1, <2>3
  <2>5. Confirmed' = Confirmed /\ Waitlisted' = Waitlisted
    BY <2>1 DEF Confirmed, Waitlisted, With
  <2>6. /\ Min(sizes)' <= Min(sizes) /\ Max(sizes) <= Max(sizes)'
        /\ Min(sizes)' \in Nat /\ Max(sizes)' \in Nat
    BY <2>4
  <2> QED BY <2>1, <2>5, <2>6, <1>b DEF PlacesAreShared
<1>7. CASE Clock
  <2>1. phase' # "before" /\ UNCHANGED <<booking, sizes>>
    BY <1>7 DEF Clock, formVars
  <2> QED BY <2>1 DEF PlacesAreShared, Confirmed, Waitlisted, With
<1> QED
  BY <1>1, <1>2, <1>3, <1>4, <1>5, <1>6, <1>7
  DEF ShiftNext, shiftVars, BookShift, FormReads, formVars

\* Nobody overtakes: who joined before and still waits has the lower position.
LEMMA QueueInOrderStep ==
  ASSUME ShiftTypes, QueueInOrder, [ShiftNext]_shiftVars
  PROVE  QueueInOrder'
<1>n. \A w \in Waitlisted : booking[w].position \in Nat
  BY DEF ShiftTypes, Waitlisted, With
<1>l. \A v \in Volunteers : Waitlisted \subseteq Volunteers /\ booking[v] = booking[v]
  BY DEF Waitlisted, With
<1>1. CASE UNCHANGED <<booking, ahead>>
  BY <1>1 DEF QueueInOrder, Waitlisted, With
<1>2. ASSUME NEW v \in Volunteers, BookCommits(v) PROVE QueueInOrder'
  <2>2. CASE Confirm(v)
    <3>1. v \notin Waitlisted /\ Waitlisted' = Waitlisted /\ ahead' = ahead
      BY <2>2, Moves DEF Confirm, Bookable, NoBooking, Waitlisted, With
    <3>2. \A u \in Waitlisted : booking'[u] = booking[u]
      BY <2>2, <3>1, <1>l DEF Confirm, ShiftTypes
    <3> QED BY <3>1, <3>2 DEF QueueInOrder
  <2>3. CASE Wait(v)
    <3>1. v \notin Waitlisted /\ Waitlisted' = Waitlisted \cup {v}
      BY <2>3, Moves
    <3>2. \A u \in Waitlisted : booking'[u] = booking[u] /\ ahead'[u] = ahead[u]
      BY <2>3, <3>1, <1>l DEF Wait, ShiftTypes
    <3>3. booking'[v].position = NextPosition /\ ahead'[v] = Waitlisted
      BY <2>3 DEF Wait, ShiftTypes
    <3> QED BY <3>1, <3>2, <3>3, NextIsLast DEF QueueInOrder
  <2>4. CASE TurnAway(v)
    BY <2>4, <1>1 DEF TurnAway
  <2> QED BY <1>2, <2>2, <2>3, <2>4 DEF BookCommits
<1>3. ASSUME NEW v \in Volunteers, CancelBooking(v) PROVE QueueInOrder'
  <2>1. PICK w \in Volunteers : Waitlisted' = Waitlisted \ {w} /\ ahead' = Left(w)
    <3>1. CASE Promotes(v)
      BY <1>3, <3>1, Moves, <1>l
    <3>2. CASE ~Promotes(v)
      BY <1>3, <3>2, Moves
    <3> QED BY <3>1, <3>2
  <2>2. \A u \in Waitlisted' : booking'[u] = booking[u]
    BY <1>3, Moves
  <2>3. \A u \in Waitlisted' : ahead'[u] = ahead[u] \ {w}
    BY <2>1, <1>l DEF Left
  <2> QED BY <2>1, <2>2, <2>3 DEF QueueInOrder
<1>4. ASSUME NEW v \in Volunteers, MarkNoShow(v) \/ CompleteBooking(v) PROVE QueueInOrder'
  <2>1. Waitlisted' = Waitlisted /\ ahead' = ahead
    BY <1>4, Moves DEF MarkNoShow, CompleteBooking, Marked
  <2>2. \A u \in Waitlisted : booking'[u] = booking[u]
    BY <1>4 DEF MarkNoShow, CompleteBooking, Marked, Waitlisted, With, ShiftTypes
  <2> QED BY <2>1, <2>2 DEF QueueInOrder
<1>5. CASE CancelShift
  <2>1. Waitlisted' = {}
    BY <1>5 DEF CancelShift, Confirmed, Waitlisted, With, ShiftTypes
  <2> QED BY <2>1 DEF QueueInOrder
<1> QED
  BY <1>1, <1>2, <1>3, <1>4, <1>5
  DEF ShiftNext, shiftVars, BookShift, FormReads, FormSaves, Clock, formVars

\* A shift without bookings satisfies the invariant.
LEMMA PlacesInvInit == ShiftInit => PlacesInv
<1> SUFFICES ASSUME ShiftInit PROVE PlacesInv
  OBVIOUS
<1>1. shift \in Shifts
  BY DEF ShiftInit, Shifts
<1>2. Confirmed = {} /\ Waitlisted = {}
  BY DEF ShiftInit, NoBooking, Confirmed, Waitlisted, With
<1>3. ShiftRows
  BY <1>1 DEF ShiftInit, ShiftRows, NoBooking
<1>4. IsFiniteSet(sizes) /\ sizes \subseteq Nat /\ shift.capacity \in sizes /\ sizes # {}
  BY <1>1, FS_Singleton, ShiftAssumption DEF ShiftInit, Shifts
<1>5. ~closed => shift.waitlist
  BY DEF ShiftInit
<1>6. ShiftTypes
  BY <1>4, <1>5 DEF ShiftInit, ShiftTypes, ShiftStatuses, NoBooking
<1>7. PlacesAreShared
  <2>1. Max(sizes) \in Nat
    BY <1>4, LargestSmallest
  <2>2. Cardinality(Confirmed) = 0
    BY <1>2, FS_EmptySet
  <2> QED BY <1>2, <2>1, <2>2 DEF PlacesAreShared
<1> QED
  BY <1>2, <1>3, <1>6, <1>7 DEF PlacesInv, QueueInOrder

\* Every behaviour keeps the invariant the two theorems below follow from (scheduling.py).
THEOREM ShiftInvariance == ShiftSpec => []PlacesInv
<1>1. PlacesInv /\ [ShiftNext]_shiftVars => PlacesInv'
  BY ShiftRowsStep, ShiftTypesStep, PlacesStep, QueueInOrderStep DEF PlacesInv
<1> QED
  BY <1>1, PlacesInvInit, PTL DEF ShiftSpec

\* No more volunteers are confirmed than the shift has ever had places, and before it
\* starts nobody waits while a place is free, for any volunteers, capacities and
\* interleaving of bookings, cancellations and edits (book_shift, cancel_booking).
THEOREM PlacesShared == ShiftSpec => []PlacesAreShared
<1>1. PlacesInv => PlacesAreShared
  BY DEF PlacesInv
<1> QED
  BY <1>1, ShiftInvariance, PTL

\* Nobody is promoted past a volunteer who joined the waitlist earlier and still waits
\* (next_pos, and the order of next_up).
THEOREM PromotedInOrder == ShiftSpec => WaitlistInOrder
<1>1. ASSUME PlacesInv, [ShiftNext]_shiftVars
      PROVE  [\A v \in Volunteers : v \in Waitlisted /\ v \in Confirmed' => ahead[v] = {}]_shiftVars
  <2> SUFFICES ASSUME ShiftNext, NEW x \in Volunteers, x \in Waitlisted, x \in Confirmed'
               PROVE  ahead[x] = {}
    BY <1>1
  <2>t. ShiftTypes /\ QueueInOrder /\ x \notin Confirmed
    BY <1>1 DEF PlacesInv, Confirmed, Waitlisted, With
  <2>1. CASE booking' = booking
    BY <2>1, <2>t DEF Confirmed, With
  <2>2. ASSUME NEW v \in Volunteers, BookCommits(v) PROVE FALSE
    <3>1. CASE Confirm(v)
      <4>1. booking[v].status = "none"
        BY <3>1 DEF Confirm, Bookable, NoBooking
      <4> QED BY <3>1, <4>1, <2>t, Moves DEF Waitlisted, With
    <3>2. CASE Wait(v)
      BY <3>2, <2>t, Moves
    <3>3. CASE TurnAway(v)
      BY <3>3, <2>t DEF TurnAway, Confirmed, With
    <3> QED BY <2>2, <3>1, <3>2, <3>3 DEF BookCommits
  <2>3. ASSUME NEW v \in Volunteers, CancelBooking(v) PROVE ahead[x] = {}
    <3>1. PICK w \in NextUp : Confirmed' = (Confirmed \ {v}) \cup {w}
      BY <2>3, <2>t, Moves
    <3>2. x = w /\ x \in NextUp
      BY <3>1, <2>t
    <3>3. \A u \in Waitlisted : booking[x].position <= booking[u].position
      BY <3>2 DEF NextUp
    <3>4. \A u \in ahead[x] : u \in Waitlisted /\ booking[u].position < booking[x].position
      BY <2>t DEF QueueInOrder
    <3>5. \A u \in Waitlisted : booking[u].position \in Nat
      BY <2>t DEF ShiftTypes, Waitlisted, With
    <3> QED BY <3>3, <3>4, <3>5
  <2>4. ASSUME NEW v \in Volunteers, MarkNoShow(v) \/ CompleteBooking(v) PROVE FALSE
    BY <2>4, <2>t, Moves
  <2>5. CASE CancelShift
    BY <2>5, <2>t DEF CancelShift, Confirmed, Waitlisted, With, ShiftTypes
  <2> QED
    BY <2>1, <2>2, <2>3, <2>4, <2>5
    DEF ShiftNext, BookShift, FormReads, FormSaves, Clock
<1> QED
  BY <1>1, ShiftInvariance, PTL DEF ShiftSpec, WaitlistInOrder
=============================================================================
