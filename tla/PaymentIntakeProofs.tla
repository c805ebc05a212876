------------------------ MODULE PaymentIntakeProofs ------------------------
(***************************************************************************)
(* Proofs about PaymentIntake, for any number of requests, servers and     *)
(* consumers: every task is handed over at most once and every answer is   *)
(* true.                                                                   *)
(*                                                                         *)
(* The queue of a server's hooks ends with the only message it will send,  *)
(* so "still to be sent" is a fact about the last hook (Pending).  A task  *)
(* of a batch or a notification is then pending at one server or sent, not *)
(* both, and neither before its row exists; the task of a command is in    *)
(* the hands of the one consumer that acknowledged it.                     *)
(***************************************************************************)
EXTENDS PaymentIntake, SequenceTheorems, TLAPS

\* The hooks, and what they send.
Pub(i) == <<"publish", i>>
Enq(i) == <<"enqueue", i>>
Snd(t) == <<"send", t>>
Process(b) == <<"process", b>>
Orchestrate(i) == <<"orchestrate", i>>

Queue(q) ==
  \/ q = <<>>
  \/ \E i \in Commands : q = <<Pub(i)>> \/ q = <<Enq(i)>>
  \/ \E i \in Commands, b \in Batches :
        q = <<Pub(i), Snd(Process(b))>> \/ q = <<Enq(i), Snd(Process(b))>>
  \/ \E i \in Payments : q = <<Snd(Orchestrate(i))>>
  \/ \E b \in Batches : q = <<Snd(Process(b))>>

Last(q, t) == q # <<>> /\ q[Len(q)] = Snd(t)

\* The queue after its first hook, publish, ran.
Published(q, i, again) == (IF again THEN <<>> ELSE <<Enq(i)>>) \o Tail(q)

\* Queues of one and of two hooks.
LEMMA OneHook ==
  ASSUME NEW a \in Hooks
  PROVE  /\ <<a>> \in Seq(Hooks) /\ <<a>> # <<>> /\ Head(<<a>>) = a /\ Tail(<<a>>) = <<>>
         /\ \A t : Last(<<a>>, t) <=> a = Snd(t)
  BY DEF Last

LEMMA TwoHooks ==
  ASSUME NEW a \in Hooks, NEW b \in Hooks
  PROVE  /\ <<a, b>> \in Seq(Hooks) /\ <<a, b>> # <<>> /\ Head(<<a, b>>) = a
         /\ Tail(<<a, b>>) = <<b>>
         /\ \A t : Last(<<a, b>>, t) <=> b = Snd(t)
<1>1. /\ <<a, b>> \in Seq(Hooks) /\ <<a, b>> # <<>> /\ Head(<<a, b>>) = a
      /\ Len(<<a, b>>) = 2 /\ <<a, b>>[2] = b
  OBVIOUS
<1>2. Tail(<<a, b>>) = <<b>>  OBVIOUS
<1> QED  BY <1>1, <1>2 DEF Last

LEMMA Join == ASSUME NEW S, NEW a \in S, NEW b \in S PROVE <<a>> \o <<b>> = <<a, b>>
<1> DEFINE c == <<a>> \o <<b>>
<1>1. <<a>> \in Seq(S) /\ <<b>> \in Seq(S) /\ <<a, b>> \in Seq(S)  OBVIOUS
<1>2. Len(<<a>>) = 1 /\ Len(<<b>>) = 1 /\ Len(<<a, b>>) = 2  OBVIOUS
<1>3. /\ c \in Seq(S) /\ Len(c) = 2
      /\ \A i \in 1 .. 2 : c[i] = IF i <= 1 THEN <<a>>[i] ELSE <<b>>[i - 1]
  BY <1>1, <1>2, ConcatProperties
<1>4. c[1] = a /\ c[2] = b  BY <1>3
<1>5. \A i \in 1 .. 2 : c[i] = <<a, b>>[i]  BY <1>4
<1> QED  BY <1>1, <1>2, <1>3, <1>5, SeqEqual

LEMMA JoinHooks ==
  ASSUME NEW a \in Hooks, NEW b \in Hooks
  PROVE  /\ <<>> \o <<a>> = <<a>> /\ <<a>> \o <<>> = <<a>> /\ <<a>> \o <<b>> = <<a, b>>
         /\ <<>> \o <<>> = <<>>
<1>1. <<>> \in Seq(Hooks)  OBVIOUS
<1>2. <<>> \o <<>> = <<>>  BY <1>1, ConcatEmptySeq
<1>3. <<>> \o <<a>> = <<a>>  OBVIOUS
<1>4. <<a>> \o <<>> = <<a>>
  <2>1. <<a>> \in Seq(Hooks)  OBVIOUS
  <2> QED  BY <2>1, ConcatEmptySeq
<1>5. <<a>> \o <<b>> = <<a, b>>  BY Join
<1> QED  BY <1>2, <1>3, <1>4, <1>5

\* The hooks and tasks, and that their kinds differ.
LEMMA HooksTyped ==
  /\ \A i \in Commands : Pub(i) \in Hooks /\ Enq(i) \in Hooks
  /\ \A b \in Batches : Process(b) \in WorkerTasks /\ Snd(Process(b)) \in Hooks
  /\ \A i \in Payments : Orchestrate(i) \in WorkerTasks /\ Snd(Orchestrate(i)) \in Hooks
  /\ \A i \in Commands : Orchestrate(i) \in WorkerTasks
  BY DEF Hooks, WorkerTasks, Pub, Enq, Snd, Process, Orchestrate

LEMMA KindsDiffer ==
  /\ \A i, j : Pub(i) # Enq(j) /\ Pub(i) # Snd(j) /\ Enq(i) # Snd(j)
  /\ \A i, j : Pub(i) = Pub(j) => i = j
  /\ \A i, j : Enq(i) = Enq(j) => i = j
  /\ \A i, j : Snd(i) = Snd(j) => i = j
  /\ \A i, j : Process(i) # Orchestrate(j)
  /\ \A i, j : Process(i) = Process(j) => i = j
  /\ \A i, j : Orchestrate(i) = Orchestrate(j) => i = j
  BY DEF Pub, Enq, Snd, Process, Orchestrate

\* A task is one of a batch or one of a command or payment.
LEMMA TaskKinds ==
  ASSUME NEW t \in WorkerTasks
  PROVE  \/ \E b \in Batches : t = Process(b)
         \/ \E i \in Commands \cup Payments : t = Orchestrate(i)
  BY DEF WorkerTasks, Process, Orchestrate

\* A well-formed queue is a sequence of hooks.
LEMMA QueueIsSeq ==
  ASSUME NEW q, Queue(q)
  PROVE  q \in Seq(Hooks)
<1>1. <<>> \in Seq(Hooks)  OBVIOUS
<1>2. \A a \in Hooks : <<a>> \in Seq(Hooks)  BY OneHook
<1>3. \A a, b \in Hooks : <<a, b>> \in Seq(Hooks)  BY TwoHooks
<1> QED  BY <1>1, <1>2, <1>3, HooksTyped DEF Queue

\* Publishing keeps a queue well formed and what it will send.
LEMMA PublishQueue ==
  ASSUME NEW q, Queue(q), q # <<>>, NEW i \in Commands, Head(q) = Pub(i), NEW again \in BOOLEAN
  PROVE  Queue(Published(q, i, again)) /\ \A t : Last(Published(q, i, again), t) => Last(q, t)
<1>0. Pub(i) \in Hooks /\ Enq(i) \in Hooks  BY HooksTyped
<1>1. CASE q = <<Pub(i)>>
  <2>1. Tail(q) = <<>>  BY <1>0, <1>1, OneHook
  <2>2. CASE again
    <3>1. Published(q, i, again) = <<>>  BY <2>1, <2>2, <1>0, JoinHooks DEF Published
    <3> QED  BY <3>1 DEF Queue, Last
  <2>3. CASE ~again
    <3>1. Published(q, i, again) = <<Enq(i)>>  BY <2>1, <2>3, <1>0, JoinHooks DEF Published
    <3>2. \A t : ~Last(<<Enq(i)>>, t)  BY <1>0, OneHook, KindsDiffer
    <3> QED  BY <3>1, <3>2 DEF Queue
  <2> QED  BY <2>2, <2>3
<1>2. ASSUME NEW b \in Batches, q = <<Pub(i), Snd(Process(b))>>
      PROVE  Queue(Published(q, i, again))
             /\ \A t : Last(Published(q, i, again), t) => Last(q, t)
  <2>0. Snd(Process(b)) \in Hooks  BY HooksTyped
  <2>1. Tail(q) = <<Snd(Process(b))>>  BY <1>0, <1>2, <2>0, TwoHooks
  <2>2. \A t : Last(q, t) <=> Snd(Process(b)) = Snd(t)  BY <1>0, <1>2, <2>0, TwoHooks
  <2>3. CASE again
    <3>1. Published(q, i, again) = <<Snd(Process(b))>>
      BY <2>0, <2>1, <2>3, JoinHooks DEF Published
    <3>2. \A t : Last(<<Snd(Process(b))>>, t) <=> Snd(Process(b)) = Snd(t)  BY <2>0, OneHook
    <3> QED  BY <2>2, <3>1, <3>2 DEF Queue
  <2>4. CASE ~again
    <3>1. Published(q, i, again) = <<Enq(i), Snd(Process(b))>>
      BY <1>0, <2>0, <2>1, <2>4, JoinHooks DEF Published
    <3>2. \A t : Last(<<Enq(i), Snd(Process(b))>>, t) <=> Snd(Process(b)) = Snd(t)
      BY <1>0, <2>0, TwoHooks
    <3> QED  BY <2>2, <3>1, <3>2 DEF Queue
  <2> QED  BY <2>3, <2>4
<1>3. q = <<Pub(i)>> \/ \E b \in Batches : q = <<Pub(i), Snd(Process(b))>>
  BY HooksTyped, KindsDiffer, OneHook, TwoHooks DEF Queue
<1> QED  BY <1>1, <1>2, <1>3

\* So does the hook that enqueues the consumer.
LEMMA EnqueueQueue ==
  ASSUME NEW q, Queue(q), q # <<>>, NEW i \in Commands, Head(q) = Enq(i)
  PROVE  Queue(Tail(q)) /\ \A t : Last(Tail(q), t) => Last(q, t)
<1>0. Enq(i) \in Hooks  BY HooksTyped
<1>1. CASE q = <<Enq(i)>>
  <2>1. Tail(q) = <<>>  BY <1>0, <1>1, OneHook
  <2> QED  BY <2>1 DEF Queue, Last
<1>2. ASSUME NEW b \in Batches, q = <<Enq(i), Snd(Process(b))>>
      PROVE  Queue(Tail(q)) /\ \A t : Last(Tail(q), t) => Last(q, t)
  <2>0. Snd(Process(b)) \in Hooks  BY HooksTyped
  <2>1. Tail(q) = <<Snd(Process(b))>>
    BY <1>0, <1>2, <2>0, TwoHooks
  <2>2. \A t : Last(q, t) <=> Snd(Process(b)) = Snd(t)  BY <1>0, <1>2, <2>0, TwoHooks
  <2>3. \A t : Last(<<Snd(Process(b))>>, t) <=> Snd(Process(b)) = Snd(t)  BY <2>0, OneHook
  <2> QED  BY <2>1, <2>2, <2>3 DEF Queue
<1>3. q = <<Enq(i)>> \/ \E b \in Batches : q = <<Enq(i), Snd(Process(b))>>
  BY HooksTyped, KindsDiffer, OneHook, TwoHooks DEF Queue
<1> QED  BY <1>1, <1>2, <1>3

\* A message is sent by the last hook, and nothing is left.
LEMMA SendQueue ==
  ASSUME NEW q, Queue(q), q # <<>>, NEW t, Head(q) = Snd(t)
  PROVE  /\ Tail(q) = <<>> /\ Last(q, t)
         /\ (\E i \in Payments : t = Orchestrate(i)) \/ \E b \in Batches : t = Process(b)
<1>1. \/ \E i \in Payments : q = <<Snd(Orchestrate(i))>>
      \/ \E b \in Batches : q = <<Snd(Process(b))>>
  BY HooksTyped, KindsDiffer, OneHook, TwoHooks DEF Queue
<1>2. CASE \E i \in Payments : q = <<Snd(Orchestrate(i))>>
  BY <1>2, HooksTyped, KindsDiffer, OneHook
<1>3. CASE \E b \in Batches : q = <<Snd(Process(b))>>
  BY <1>3, HooksTyped, KindsDiffer, OneHook
<1> QED  BY <1>1, <1>2, <1>3

----------------------------------------------------------------------------
Pending(s, t) == Last(server[s], t)

Queues == \A s \in Servers : Queue(server[s])

Busy == \A w \in Consumers : consumer[w] # ConsumerIdle =>
          consumer[w].pc \in {"acknowledge", "schedule"} /\ consumer[w].item \in Commands

\* A command is stored together with a batch of its BatchID, its own or an
\* earlier one.
Stored == \A q \in BulkRequests : command[Identity[q]] = q => bulkBatch[Batch[q]] # Absent

\* t is handed over by a hook of the transaction that made its row.
HookSends(t, begun) ==
  /\ sent[t] <= 1
  /\ sent[t] > 0 => begun
  /\ \A s \in Servers : Pending(s, t) =>
       begun /\ sent[t] = 0 /\ \A r \in Servers : Pending(r, t) => r = s

Scheduling(w, i) == consumer[w] = [pc |-> "schedule", item |-> i]

\* The orchestration of command i is scheduled by the consumer that
\* acknowledged it.
ConsumerSends(i) ==
  /\ sent[Orchestrate(i)] <= 1
  /\ sent[Orchestrate(i)] > 0 => commandOutbox[i].acknowledged
  /\ \A w \in Consumers : Scheduling(w, i) =>
       /\ commandOutbox[i].acknowledged /\ sent[Orchestrate(i)] = 0
       /\ \A v \in Consumers : Scheduling(v, i) => v = w

BatchSends == \A b \in Batches : HookSends(Process(b), bulkBatch[b] # Absent)
BillSends == \A i \in Payments : HookSends(Orchestrate(i), transfer[i] # Absent)
CommandSends == \A i \in Commands : ConsumerSends(i)

IInv == /\ IntakeTypes /\ Queues /\ Busy /\ Stored /\ AnswersAreTrue
        /\ BatchSends /\ BillSends /\ CommandSends

\* The initial states satisfy the invariant.
LEMMA InitInv == IntakeInit => IInv
<1> SUFFICES ASSUME IntakeInit PROVE IInv  OBVIOUS
<1> USE IntakeAssumption DEF IntakeInit
<1>1. Queues  BY DEF Queues, Queue
<1>2. IntakeTypes  BY <1>1, QueueIsSeq DEF IntakeTypes, Queues, ConsumerIdle
<1>3. \A i : command[i] = Absent \/ i \notin Commands  OBVIOUS
<1>4. Stored  BY <1>3 DEF Stored, Commands, Requests
<1>5. \A q \in Requests : "ok" \notin answered[q]  OBVIOUS
<1>6. AnswersAreTrue  BY <1>5 DEF AnswersAreTrue, Requests
<1>7. \A s \in Servers : \A t : ~Pending(s, t)  BY DEF Pending, Last
<1>8. \A t \in WorkerTasks : sent[t] = 0  OBVIOUS
<1>9. BatchSends /\ BillSends  BY <1>7, <1>8, HooksTyped DEF BatchSends, BillSends, HookSends
<1>10. Busy /\ CommandSends
  BY <1>8, HooksTyped DEF Busy, CommandSends, ConsumerSends, Scheduling, ConsumerIdle
<1> QED  BY <1>1, <1>2, <1>4, <1>6, <1>9, <1>10 DEF IInv

----------------------------------------------------------------------------
(* What steps that touch neither leave alone.                              *)

\* Hooks that only disappear and rows that only appear disturb no task of a
\* batch or a payment.
LEMMA HookSendsFrame ==
  ASSUME BatchSends, BillSends,
         \A b \in Batches : sent'[Process(b)] = sent[Process(b)],
         \A i \in Payments : sent'[Orchestrate(i)] = sent[Orchestrate(i)],
         \A s \in Servers : \A t : Pending(s, t)' => Pending(s, t),
         \A b \in Batches : bulkBatch[b] # Absent => bulkBatch'[b] # Absent,
         \A i \in Payments : transfer[i] # Absent => transfer'[i] # Absent
  PROVE  BatchSends' /\ BillSends'
<1>1. BatchSends'  BY DEF BatchSends, HookSends
<1>2. BillSends'  BY DEF BillSends, HookSends
<1> QED  BY <1>1, <1>2

\* Steps that leave the consumers and their acknowledgements alone.
LEMMA CommandSendsFrame ==
  ASSUME CommandSends, consumer' = consumer,
         \A i \in Commands : sent'[Orchestrate(i)] = sent[Orchestrate(i)],
         \A i \in Commands : commandOutbox'[i].acknowledged = commandOutbox[i].acknowledged
  PROVE  CommandSends'
  BY DEF CommandSends, ConsumerSends, Scheduling

\* Hooks of a server that only disappear, or keep what they will send.
LEMMA PendingFrame ==
  ASSUME server \in [Servers -> Seq(Hooks)], NEW s \in Servers, NEW q,
         server' = [server EXCEPT ![s] = q], \A t : Last(q, t) => Last(server[s], t)
  PROVE  \A r \in Servers : \A t : Pending(r, t)' => Pending(r, t)
  BY DEF Pending

----------------------------------------------------------------------------
(* Each action keeps the invariant.                                        *)

LEMMA AnsweredTyped ==
  ASSUME answered \in [Requests -> SUBSET {"ok", "refused"}], NEW q \in Requests,
         NEW a \in {"ok", "refused"}, answered' = [answered EXCEPT ![q] = @ \cup {a}]
  PROVE  answered' \in [Requests -> SUBSET {"ok", "refused"}]
<1>1. answered[q] \cup {a} \in SUBSET {"ok", "refused"}  OBVIOUS
<1> QED  BY <1>1

LEMMA PostBulkInv ==
  ASSUME IInv, NEW s \in Servers, NEW q \in BulkRequests, PostBulk(s, q)
  PROVE  IInv'
<1> DEFINE i == Identity[q]
           b == Batch[q]
<1> USE DEF IInv
<1>1. i \in Commands /\ b \in Batches /\ q \in Requests /\ q # Absent
  BY IntakeAssumption DEF Commands, Batches, Requests
<1>2. /\ command[i] = Absent /\ command' = [command EXCEPT ![i] = q]
      /\ server[s] = <<>>
      /\ UNCHANGED <<commandOutbox, transfer, bill, deliveries, consumer, sent>>
  BY DEF PostBulk
<1>3. Pub(i) \in Hooks /\ Snd(Process(b)) \in Hooks  BY <1>1, HooksTyped
<1>4. HooksOf(i, b) = <<Pub(i), Snd(Process(b))>>
  BY DEF HooksOf, Pub, Snd, Process
<1>5. Head(HooksOf(i, b)) = Pub(i)  BY <1>3, <1>4, TwoHooks
<1>6. \/ /\ bulkBatch[b] = Absent
         /\ bulkBatch' = [bulkBatch EXCEPT ![b] = q]
         /\ server' = [server EXCEPT ![s] = <<Pub(i), Snd(Process(b))>>]
         /\ answered' = [answered EXCEPT ![q] = @ \cup {"ok"}]
      \/ /\ bulkBatch[b] # Absent /\ bulkBatch' = bulkBatch
         /\ server' = [server EXCEPT ![s] = <<Pub(i)>>]
         /\ answered' = [answered EXCEPT ![q] = @ \cup {"refused"}]
  BY <1>4, <1>5 DEF PostBulk, Answer
<1> HIDE DEF i, b
<1>7. Queues'
  <2>1. Queue(<<Pub(i)>>) /\ Queue(<<Pub(i), Snd(Process(b))>>)  BY <1>1 DEF Queue
  <2> QED  BY <1>6, <2>1 DEF Queues, IntakeTypes
<1>8. IntakeTypes'
  <2>0. \A r \in Servers : server'[r] \in Seq(Hooks)  BY <1>7, QueueIsSeq DEF Queues
  <2>1. server' \in [Servers -> Seq(Hooks)]  BY <1>6, <2>0 DEF IntakeTypes
  <2>2. command' \in [Commands -> BulkRequests \cup {Absent}]  BY <1>2 DEF IntakeTypes
  <2>3. bulkBatch' \in [Batches -> BulkRequests \cup {Absent}]  BY <1>6 DEF IntakeTypes
  <2>4. answered' \in [Requests -> SUBSET {"ok", "refused"}]
    BY <1>1, <1>6, AnsweredTyped DEF IntakeTypes
  <2> QED  BY <1>2, <2>1, <2>2, <2>3, <2>4 DEF IntakeTypes
<1>9. Busy'  BY <1>2 DEF Busy
<1>10. bulkBatch'[b] # Absent /\ \A c \in Batches : bulkBatch[c] # Absent => bulkBatch'[c] = bulkBatch[c]
  BY <1>1, <1>6 DEF IntakeTypes
<1>11. \A j \in Commands : command[j] # Absent => command'[j] = command[j]
  BY <1>1, <1>2 DEF IntakeTypes
<1>12. ASSUME NEW r \in BulkRequests
       PROVE  Identity[r] \in Commands /\ Batch[r] \in Batches /\ r \in Requests /\ r # Absent
  BY IntakeAssumption DEF Commands, Batches, Requests
<1>13. Stored'
  <2> SUFFICES ASSUME NEW r \in BulkRequests, command'[Identity[r]] = r
               PROVE  bulkBatch'[Batch[r]] # Absent
    BY DEF Stored
  <2>1. CASE r = q  BY <2>1, <1>10 DEF b
  <2>2. CASE r # q
    <3>1. command[Identity[r]] = r  BY <2>2, <1>1, <1>2, <1>12 DEF IntakeTypes
    <3> QED  BY <3>1, <1>10, <1>12 DEF Stored
  <2> QED  BY <2>1, <2>2
<1>14. AnswersAreTrue'
  <2>1. ASSUME NEW r \in BulkRequests, "ok" \in answered'[r]
        PROVE  command'[Identity[r]] = r /\ bulkBatch'[Batch[r]] = r
    <3>1. CASE "ok" \in answered[r]
      <4>1. command[Identity[r]] = r /\ bulkBatch[Batch[r]] = r  BY <3>1 DEF AnswersAreTrue
      <4> QED  BY <4>1, <1>10, <1>11, <1>12
    <3>2. CASE "ok" \notin answered[r]
      <4>1. r = q /\ bulkBatch' = [bulkBatch EXCEPT ![b] = q]
        BY <2>1, <3>2, <1>6, <1>1, <1>12 DEF IntakeTypes
      <4> QED  BY <4>1, <1>1, <1>2 DEF IntakeTypes, i, b
    <3> QED  BY <3>1, <3>2
  <2>2. ASSUME NEW r \in BillRequests, "ok" \in answered'[r]
        PROVE  transfer'[Identity[r]] = r /\ bill'[Bill[r]] = "paid"
    <3>1. r # q /\ r \in Requests  BY IntakeAssumption DEF Requests
    <3>2. "ok" \in answered[r]  BY <2>2, <3>1, <1>6, <1>1 DEF IntakeTypes
    <3> QED  BY <3>2, <1>2 DEF AnswersAreTrue
  <2> QED  BY <2>1, <2>2 DEF AnswersAreTrue
<1>15. CommandSends'  BY <1>2, CommandSendsFrame
<1>16. \A t : Last(<<Pub(i)>>, t) => Last(server[s], t)  BY <1>3, OneHook, KindsDiffer
<1>17. \A t : Last(<<Pub(i), Snd(Process(b))>>, t) <=> t = Process(b)
  BY <1>3, TwoHooks, KindsDiffer
<1>18. BatchSends' /\ BillSends'
  <2>1. CASE bulkBatch[b] # Absent
    <3>1. server' = [server EXCEPT ![s] = <<Pub(i)>>]  BY <2>1, <1>6
    <3>2. \A r \in Servers : \A t : Pending(r, t)' => Pending(r, t)
      BY <3>1, <1>16, PendingFrame DEF IntakeTypes
    <3> QED  BY <3>2, <1>2, <1>10, HookSendsFrame
  <2>2. CASE bulkBatch[b] = Absent
    <3>1. server' = [server EXCEPT ![s] = <<Pub(i), Snd(Process(b))>>]  BY <2>2, <1>6
    <3>2. \A r \in Servers : \A t : Pending(r, t)' =>
             Pending(r, t) \/ (r = s /\ t = Process(b))
      BY <3>1, <1>17 DEF Pending, IntakeTypes
    <3>3. \A r \in Servers : ~Pending(r, Process(b))
      BY <2>2, <1>1 DEF BatchSends, HookSends
    <3>4. sent[Process(b)] = 0
      BY <2>2, <1>1, HooksTyped DEF BatchSends, HookSends, IntakeTypes
    <3>5. BatchSends'
      <4> SUFFICES ASSUME NEW c \in Batches
                   PROVE  HookSends(Process(c), bulkBatch[c] # Absent)'
        BY DEF BatchSends
      <4>1. HookSends(Process(c), bulkBatch[c] # Absent)  BY DEF BatchSends
      <4>2. CASE c = b
        <5>1. \A r \in Servers : Pending(r, Process(c))' => r = s  BY <3>2, <3>3, <4>2
        <5> QED  BY <5>1, <4>2, <3>4, <1>2, <1>10 DEF HookSends
      <4>3. CASE c # b
        <5>1. Process(c) # Process(b)  BY <4>3, KindsDiffer
        <5> QED  BY <5>1, <4>1, <3>2, <1>2, <1>10 DEF HookSends
      <4> QED  BY <4>2, <4>3
    <3>6. \A j : Orchestrate(j) # Process(b)  BY KindsDiffer
    <3>7. BillSends'  BY <3>2, <3>6, <1>2 DEF BillSends, HookSends
    <3> QED  BY <3>5, <3>7
  <2> QED  BY <2>1, <2>2
<1> QED  BY <1>7, <1>8, <1>9, <1>13, <1>14, <1>15, <1>18

LEMMA ReplayBulkInv ==
  ASSUME IInv, NEW s \in Servers, NEW q \in BulkRequests, ReplayBulk(s, q)
  PROVE  IInv'
<1> USE DEF IInv
<1>1. /\ UNCHANGED <<command, commandOutbox, bulkBatch, transfer, bill, server, deliveries, consumer, sent>>
      /\ answered' = [answered EXCEPT ![q] =
           @ \cup {IF SameCommand(q) /\ bulkBatch[Batch[q]] = Absent THEN "ok" ELSE "refused"}]
  BY DEF ReplayBulk, Answer
<1>2. ~(SameCommand(q) /\ bulkBatch[Batch[q]] = Absent)  BY DEF SameCommand, Stored
<1>3. answered' = [answered EXCEPT ![q] = @ \cup {"refused"}]  BY <1>1, <1>2
<1>4. IntakeTypes'
  <2>1. answered' \in [Requests -> SUBSET {"ok", "refused"}]
    BY <1>3, AnsweredTyped DEF IntakeTypes, Requests
  <2> QED  BY <1>1, <2>1 DEF IntakeTypes
<1>5. \A r \in Requests : "ok" \in answered'[r] => "ok" \in answered[r]
  BY <1>3 DEF IntakeTypes
<1>6. AnswersAreTrue'  BY <1>1, <1>5 DEF AnswersAreTrue, Requests
<1>7. Queues' /\ Busy' /\ Stored'  BY <1>1 DEF Queues, Busy, Stored
<1>8. BatchSends' /\ BillSends' /\ CommandSends'
  BY <1>1 DEF BatchSends, BillSends, CommandSends, HookSends, ConsumerSends, Scheduling, Pending
<1> QED  BY <1>4, <1>6, <1>7, <1>8

LEMMA NotifyPaymentInv ==
  ASSUME IInv, NEW s \in Servers, NEW q \in BillRequests, NotifyPayment(s, q)
  PROVE  IInv'
<1> DEFINE i == Identity[q]
<1> USE DEF IInv
<1>1. i \in Payments /\ Bill[q] \in Bills /\ q \in Requests /\ q # Absent
  BY IntakeAssumption DEF Payments, Bills, Requests
<1>2. /\ server[s] = <<>> /\ transfer[i] = Absent
      /\ transfer' = [transfer EXCEPT ![i] = q]
      /\ bill' = [bill EXCEPT ![Bill[q]] = "paid"]
      /\ server' = [server EXCEPT ![s] = <<Snd(Orchestrate(i))>>]
      /\ answered' = [answered EXCEPT ![q] = @ \cup {"ok"}]
      /\ UNCHANGED <<command, commandOutbox, bulkBatch, deliveries, consumer, sent>>
  BY DEF NotifyPayment, Answer, Snd, Orchestrate
<1> HIDE DEF i
<1>3. Queues'
  <2>1. Queue(<<Snd(Orchestrate(i))>>)  BY <1>1 DEF Queue
  <2> QED  BY <1>2, <2>1 DEF Queues, IntakeTypes
<1>4. IntakeTypes'
  <2>0. \A r \in Servers : server'[r] \in Seq(Hooks)  BY <1>3, QueueIsSeq DEF Queues
  <2>1. server' \in [Servers -> Seq(Hooks)]  BY <1>2, <2>0 DEF IntakeTypes
  <2>2. transfer' \in [Payments -> BillRequests \cup {Absent}]  BY <1>2 DEF IntakeTypes
  <2>3. bill' \in [Bills -> {"open", "paid"}]  BY <1>2 DEF IntakeTypes
  <2>4. answered' \in [Requests -> SUBSET {"ok", "refused"}]
    BY <1>1, <1>2, AnsweredTyped DEF IntakeTypes
  <2> QED  BY <1>2, <2>1, <2>2, <2>3, <2>4 DEF IntakeTypes
<1>5. Busy' /\ Stored'  BY <1>2 DEF Busy, Stored
<1>6. AnswersAreTrue'
  <2>1. ASSUME NEW r \in BulkRequests, "ok" \in answered'[r]
        PROVE  command'[Identity[r]] = r /\ bulkBatch'[Batch[r]] = r
    <3>1. r # q  BY IntakeAssumption
    <3>2. "ok" \in answered[r]  BY <2>1, <3>1, <1>2, <1>1 DEF IntakeTypes, Requests
    <3> QED  BY <3>2, <1>2 DEF AnswersAreTrue
  <2>2. ASSUME NEW r \in BillRequests, "ok" \in answered'[r]
        PROVE  transfer'[Identity[r]] = r /\ bill'[Bill[r]] = "paid"
    <3>1. Identity[r] \in Payments /\ Bill[r] \in Bills /\ r # Absent
      BY IntakeAssumption DEF Payments, Bills, Requests
    <3>2. CASE r = q  BY <3>2, <1>1, <1>2 DEF IntakeTypes, i
    <3>3. CASE r # q
      <4>1. "ok" \in answered[r]  BY <2>2, <3>3, <1>2, <1>1 DEF IntakeTypes, Requests
      <4>2. transfer[Identity[r]] = r /\ bill[Bill[r]] = "paid"  BY <4>1 DEF AnswersAreTrue
      <4> QED  BY <4>2, <3>1, <1>1, <1>2 DEF IntakeTypes
    <3> QED  BY <3>2, <3>3
  <2> QED  BY <2>1, <2>2 DEF AnswersAreTrue
<1>7. CommandSends'  BY <1>2, CommandSendsFrame
<1>8. \A r \in Servers : \A t : Pending(r, t)' => Pending(r, t) \/ (r = s /\ t = Orchestrate(i))
  <2>1. \A t : Last(<<Snd(Orchestrate(i))>>, t) <=> t = Orchestrate(i)
    BY <1>1, HooksTyped, OneHook, KindsDiffer
  <2> QED  BY <2>1, <1>2 DEF Pending, IntakeTypes
<1>9. \A r \in Servers : ~Pending(r, Orchestrate(i))
  BY <1>1, <1>2 DEF BillSends, HookSends
<1>10. sent[Orchestrate(i)] = 0
  BY <1>1, <1>2, HooksTyped DEF BillSends, HookSends, IntakeTypes
<1>11. transfer'[i] # Absent /\ \A j \in Payments : j # i => transfer'[j] = transfer[j]
  BY <1>1, <1>2 DEF IntakeTypes
<1>12. BillSends'
  <2> SUFFICES ASSUME NEW j \in Payments
               PROVE  HookSends(Orchestrate(j), transfer[j] # Absent)'
    BY DEF BillSends
  <2>1. HookSends(Orchestrate(j), transfer[j] # Absent)  BY DEF BillSends
  <2>2. CASE j = i
    <3>1. \A r \in Servers : Pending(r, Orchestrate(j))' => r = s  BY <1>8, <1>9, <2>2
    <3> QED  BY <3>1, <2>2, <1>10, <1>2, <1>11 DEF HookSends
  <2>3. CASE j # i
    <3>1. Orchestrate(j) # Orchestrate(i)  BY <2>3, KindsDiffer
    <3> QED  BY <3>1, <2>1, <2>3, <1>8, <1>2, <1>11 DEF HookSends
  <2> QED  BY <2>2, <2>3
<1>13. BatchSends'
  <2>1. \A b : Process(b) # Orchestrate(i)  BY KindsDiffer
  <2> QED  BY <2>1, <1>2, <1>8 DEF BatchSends, HookSends
<1> QED  BY <1>3, <1>4, <1>5, <1>6, <1>7, <1>12, <1>13

\* A refused notification, and a bill marked as paid.
LEMMA NotifyAgainInv ==
  ASSUME IInv, NEW s \in Servers, NEW q \in BillRequests, NotifyAgain(s, q)
  PROVE  IInv'
<1> USE DEF IInv
<1>1. /\ UNCHANGED <<command, commandOutbox, bulkBatch, transfer, bill, server, deliveries, consumer, sent>>
      /\ answered' = [answered EXCEPT ![q] = @ \cup {"refused"}]
  BY DEF NotifyAgain, Answer
<1>2. IntakeTypes'  BY <1>1 DEF IntakeTypes
<1>3. \A r \in Requests : "ok" \in answered'[r] => "ok" \in answered[r]
  BY <1>1 DEF IntakeTypes
<1>4. AnswersAreTrue'  BY <1>1, <1>3 DEF AnswersAreTrue, Requests
<1>5. Queues' /\ Busy' /\ Stored'  BY <1>1 DEF Queues, Busy, Stored
<1>6. BatchSends' /\ BillSends' /\ CommandSends'
  BY <1>1 DEF BatchSends, BillSends, CommandSends, HookSends, ConsumerSends, Scheduling, Pending
<1> QED  BY <1>2, <1>4, <1>5, <1>6

LEMMA MarkBillPaidInv ==
  ASSUME IInv, NEW b \in Bills, MarkBillPaid(b)
  PROVE  IInv'
<1> USE DEF IInv
<1>1. /\ bill' = [bill EXCEPT ![b] = "paid"]
      /\ UNCHANGED <<command, commandOutbox, bulkBatch, transfer, server, deliveries, consumer, sent, answered>>
  BY DEF MarkBillPaid
<1>2. IntakeTypes'  BY <1>1 DEF IntakeTypes
<1>3. AnswersAreTrue'
  <2>1. \A q \in BillRequests : Bill[q] \in Bills  BY DEF Bills
  <2>2. \A q \in BillRequests : bill[Bill[q]] = "paid" => bill'[Bill[q]] = "paid"
    BY <1>1, <2>1 DEF IntakeTypes
  <2> QED  BY <1>1, <2>2 DEF AnswersAreTrue
<1>4. Queues' /\ Busy' /\ Stored'  BY <1>1 DEF Queues, Busy, Stored
<1>5. BatchSends' /\ BillSends' /\ CommandSends'
  BY <1>1 DEF BatchSends, BillSends, CommandSends, HookSends, ConsumerSends, Scheduling, Pending
<1> QED  BY <1>2, <1>3, <1>4, <1>5

\* The hooks of a server.
LEMMA HookInv ==
  ASSUME IInv, NEW s \in Servers, NEW q, Queue(q), \A t : Last(q, t) => Last(server[s], t),
         server' = [server EXCEPT ![s] = q],
         deliveries' \subseteq Commands,
         commandOutbox' \in [Commands -> [published: BOOLEAN, acknowledged: BOOLEAN]],
         \A i \in Commands : commandOutbox'[i].acknowledged = commandOutbox[i].acknowledged,
         UNCHANGED <<command, bulkBatch, transfer, bill, consumer, sent, answered>>
  PROVE  IInv'
<1> USE DEF IInv
<1>1. Queues'  BY DEF Queues, IntakeTypes
<1>2. IntakeTypes'
  <2>1. server' \in [Servers -> Seq(Hooks)]  BY QueueIsSeq DEF IntakeTypes
  <2> QED  BY <2>1 DEF IntakeTypes
<1>3. Busy' /\ Stored' /\ AnswersAreTrue'  BY DEF Busy, Stored, AnswersAreTrue
<1>4. \A r \in Servers : \A t : Pending(r, t)' => Pending(r, t)  BY PendingFrame DEF IntakeTypes
<1>5. BatchSends' /\ BillSends'  BY <1>4, HookSendsFrame
<1>6. CommandSends'  BY CommandSendsFrame
<1> QED  BY <1>1, <1>2, <1>3, <1>5, <1>6

LEMMA PublishInv ==
  ASSUME IInv, NEW s \in Servers, NEW i \in Commands, Publish(s, i)
  PROVE  IInv'
<1>1. IntakeTypes /\ Queue(server[s]) /\ server[s] # <<>> /\ Head(server[s]) = Pub(i)
  BY DEF IInv, Queues, Publish, Hook, Pub
<1>2. PICK q : q = Published(server[s], i, commandOutbox[i].published)  OBVIOUS
<1>3. server' = [server EXCEPT ![s] = q]  BY <1>1, <1>2 DEF Publish, Published, Enq, IntakeTypes
<1>4. Queue(q) /\ \A t : Last(q, t) => Last(server[s], t)  BY <1>1, <1>2, PublishQueue DEF IntakeTypes
<1>5. /\ commandOutbox' = [commandOutbox EXCEPT ![i].published = TRUE]
      /\ UNCHANGED <<command, bulkBatch, transfer, bill, deliveries, consumer, sent, answered>>
  BY DEF Publish
<1>6. /\ commandOutbox' \in [Commands -> [published: BOOLEAN, acknowledged: BOOLEAN]]
      /\ \A j \in Commands : commandOutbox'[j].acknowledged = commandOutbox[j].acknowledged
  <2>1. commandOutbox' \in [Commands -> [published: BOOLEAN, acknowledged: BOOLEAN]]
    BY <1>1, <1>5 DEF IntakeTypes
  <2>2. \A j \in Commands : commandOutbox'[j].acknowledged = commandOutbox[j].acknowledged
    BY <1>1, <1>5 DEF IntakeTypes
  <2> QED  BY <2>1, <2>2
<1>7. deliveries' \subseteq Commands  BY <1>1, <1>5 DEF IntakeTypes
<1> QED  BY <1>3, <1>4, <1>5, <1>6, <1>7, HookInv

LEMMA EnqueueConsumerInv ==
  ASSUME IInv, NEW s \in Servers, NEW i \in Commands, EnqueueConsumer(s, i)
  PROVE  IInv'
<1>1. IntakeTypes /\ Queue(server[s]) /\ server[s] # <<>> /\ Head(server[s]) = Enq(i)
  BY DEF IInv, Queues, EnqueueConsumer, Hook, Enq
<1>2. Queue(Tail(server[s])) /\ \A t : Last(Tail(server[s]), t) => Last(server[s], t)
  BY <1>1, EnqueueQueue
<1>3. /\ server' = [server EXCEPT ![s] = Tail(server[s])] /\ deliveries' \subseteq Commands
      /\ UNCHANGED <<command, commandOutbox, bulkBatch, transfer, bill, consumer, sent, answered>>
  BY <1>1 DEF EnqueueConsumer, IntakeTypes
<1>4. /\ commandOutbox' \in [Commands -> [published: BOOLEAN, acknowledged: BOOLEAN]]
      /\ \A j \in Commands : commandOutbox'[j].acknowledged = commandOutbox[j].acknowledged
  BY <1>1, <1>3 DEF IntakeTypes
<1> QED  BY <1>2, <1>3, <1>4, HookInv

LEMMA ServerCrashInv ==
  ASSUME IInv, NEW s \in Servers, ServerCrash(s)
  PROVE  IInv'
<1>1. Queue(<<>>) /\ \A t : Last(<<>>, t) => Last(server[s], t)  BY DEF Queue, Last
<1>2. /\ server' = [server EXCEPT ![s] = <<>>]
      /\ UNCHANGED <<command, commandOutbox, bulkBatch, transfer, bill, deliveries, consumer, sent, answered>>
  BY DEF ServerCrash
<1>3. /\ deliveries' \subseteq Commands
      /\ commandOutbox' \in [Commands -> [published: BOOLEAN, acknowledged: BOOLEAN]]
      /\ \A i \in Commands : commandOutbox'[i].acknowledged = commandOutbox[i].acknowledged
  BY <1>2 DEF IInv, IntakeTypes
<1> QED  BY <1>1, <1>2, <1>3, HookInv

\* The last hook sends the task it was pending for.
LEMMA SendTaskInv ==
  ASSUME IInv, NEW s \in Servers, NEW t \in WorkerTasks, SendTask(s, t)
  PROVE  IInv'
<1> USE DEF IInv
<1>1. IntakeTypes /\ Queue(server[s]) /\ server[s] # <<>> /\ Head(server[s]) = Snd(t)
  BY DEF Queues, SendTask, Hook, Snd
<1>2. /\ Tail(server[s]) = <<>> /\ Pending(s, t)
      /\ (\E i \in Payments : t = Orchestrate(i)) \/ \E b \in Batches : t = Process(b)
  BY <1>1, SendQueue DEF Pending
<1>3. /\ server' = [server EXCEPT ![s] = <<>>] /\ sent' = [sent EXCEPT ![t] = @ + 1]
      /\ UNCHANGED <<command, commandOutbox, bulkBatch, transfer, bill, deliveries, consumer, answered>>
  BY <1>2 DEF SendTask, Send
<1>4. Queues'
  <2>1. Queue(<<>>)  BY DEF Queue
  <2> QED  BY <2>1, <1>3 DEF Queues, IntakeTypes
<1>5. IntakeTypes'
  <2>0. \A r \in Servers : server'[r] \in Seq(Hooks)  BY <1>4, QueueIsSeq DEF Queues
  <2>1. server' \in [Servers -> Seq(Hooks)]  BY <1>3, <2>0 DEF IntakeTypes
  <2>2. sent' \in [WorkerTasks -> Nat]  BY <1>3 DEF IntakeTypes
  <2> QED  BY <2>1, <2>2, <1>3 DEF IntakeTypes
<1>6. Busy' /\ Stored' /\ AnswersAreTrue'  BY <1>3 DEF Busy, Stored, AnswersAreTrue
<1>7. \A r \in Servers : \A u : Pending(r, u)' => Pending(r, u) /\ r # s
  BY <1>3 DEF Pending, IntakeTypes, Last
<1>8. \A u \in WorkerTasks : sent'[u] = IF u = t THEN sent[u] + 1 ELSE sent[u]
  BY <1>3 DEF IntakeTypes
<1>9. ASSUME NEW u \in WorkerTasks, NEW begun, HookSends(u, begun)
      PROVE  /\ sent'[u] <= 1 /\ (sent'[u] > 0 => begun)
             /\ \A r \in Servers : Pending(r, u)' =>
                  begun /\ sent'[u] = 0 /\ \A v \in Servers : Pending(v, u)' => v = r
  <2>1. CASE u = t
    <3>1. begun /\ sent[u] = 0 /\ \A r \in Servers : Pending(r, u) => r = s
      BY <1>2, <1>9, <2>1 DEF HookSends
    <3>2. \A r \in Servers : ~Pending(r, u)'  BY <3>1, <1>7
    <3> QED  BY <3>1, <3>2, <1>8, <2>1
  <2>2. CASE u # t
    <3>1. sent'[u] = sent[u]  BY <1>8, <2>2
    <3> QED  BY <3>1, <1>7, <1>9 DEF HookSends
  <2> QED  BY <2>1, <2>2
<1>10. BatchSends'  BY <1>9, <1>3, HooksTyped DEF BatchSends, HookSends
<1>11. BillSends'  BY <1>9, <1>3, HooksTyped DEF BillSends, HookSends
<1>12. CommandSends'
  <2>1. \A i \in Commands : Orchestrate(i) # t
    BY <1>2, KindsDiffer, IntakeAssumption
  <2>2. \A i \in Commands : sent'[Orchestrate(i)] = sent[Orchestrate(i)]
    BY <2>1, <1>8, HooksTyped
  <2> QED  BY <2>2, <1>3, CommandSendsFrame
<1> QED  BY <1>4, <1>5, <1>6, <1>10, <1>11, <1>12

----------------------------------------------------------------------------
\* Steps of a consumer that send nothing to the tasks of batches and bills.
LEMMA ConsumerFrame ==
  ASSUME IInv, IntakeTypes', Busy', CommandSends',
         \A b \in Batches : sent'[Process(b)] = sent[Process(b)],
         \A i \in Payments : sent'[Orchestrate(i)] = sent[Orchestrate(i)],
         UNCHANGED <<command, bulkBatch, transfer, bill, server, answered>>
  PROVE  IInv'
<1> USE DEF IInv
<1>1. Queues' /\ Stored' /\ AnswersAreTrue'  BY DEF Queues, Stored, AnswersAreTrue
<1>2. \A s \in Servers : \A t : Pending(s, t)' => Pending(s, t)  BY DEF Pending
<1>3. BatchSends' /\ BillSends'  BY <1>2, HookSendsFrame
<1> QED  BY <1>1, <1>3

LEMMA ConsumeInv ==
  ASSUME IInv, NEW w \in Consumers, NEW i \in Commands, Consume(w, i)
  PROVE  IInv'
<1>1. IntakeTypes /\ Busy /\ CommandSends  BY DEF IInv
<1>2. /\ consumer' = [consumer EXCEPT ![w] = [pc |-> "acknowledge", item |-> i]]
      /\ deliveries' \subseteq deliveries
      /\ UNCHANGED <<command, commandOutbox, bulkBatch, transfer, bill, server, sent, answered>>
  BY DEF Consume, ConsumerBecomes
<1>3. IntakeTypes'  BY <1>1, <1>2 DEF IntakeTypes
<1>4. Busy'  BY <1>1, <1>2 DEF Busy, IntakeTypes
<1>5. \A v \in Consumers, j \in Commands : Scheduling(v, j)' => Scheduling(v, j)
  BY <1>1, <1>2 DEF Scheduling, IntakeTypes
<1>6. CommandSends'  BY <1>1, <1>2, <1>5 DEF CommandSends, ConsumerSends
<1> QED  BY <1>2, <1>3, <1>4, <1>6, ConsumerFrame

LEMMA AcknowledgeInv ==
  ASSUME IInv, NEW w \in Consumers, NEW i \in Commands, AcknowledgeCommand(w, i)
  PROVE  IInv'
<1>1. IntakeTypes /\ Busy /\ CommandSends  BY DEF IInv
<1>2. UNCHANGED <<command, bulkBatch, transfer, bill, server, deliveries, sent, answered>>
  BY DEF AcknowledgeCommand
<1>3. CASE commandOutbox[i].acknowledged
  <2>1. consumer' = [consumer EXCEPT ![w] = ConsumerIdle] /\ commandOutbox' = commandOutbox
    BY <1>3 DEF AcknowledgeCommand, Acknowledged, ConsumerBecomes, ConsumerIdle
  <2>2. IntakeTypes'  BY <1>1, <1>2, <2>1 DEF IntakeTypes, ConsumerIdle
  <2>3. Busy'  BY <1>1, <2>1 DEF Busy, IntakeTypes
  <2>4. \A v \in Consumers, j \in Commands : Scheduling(v, j)' => Scheduling(v, j)
    BY <1>1, <2>1 DEF Scheduling, IntakeTypes, ConsumerIdle
  <2>5. CommandSends'  BY <1>1, <1>2, <2>1, <2>4 DEF CommandSends, ConsumerSends
  <2> QED  BY <1>2, <2>2, <2>3, <2>5, ConsumerFrame
<1>4. CASE ~commandOutbox[i].acknowledged
  <2>1. /\ consumer' = [consumer EXCEPT ![w] = [pc |-> "schedule", item |-> i]]
        /\ commandOutbox' = [commandOutbox EXCEPT ![i].acknowledged = TRUE]
    BY <1>4 DEF AcknowledgeCommand, Acknowledged, ConsumerBecomes
  <2>2. IntakeTypes'  BY <1>1, <1>2, <2>1 DEF IntakeTypes
  <2>3. Busy'  BY <1>1, <2>1 DEF Busy, IntakeTypes
  <2>4. \A v \in Consumers, j \in Commands :
          Scheduling(v, j)' => Scheduling(v, j) \/ (v = w /\ j = i)
    BY <1>1, <2>1 DEF Scheduling, IntakeTypes
  <2>5. /\ sent[Orchestrate(i)] = 0 /\ \A v \in Consumers : ~Scheduling(v, i)
    BY <1>1, <1>4, HooksTyped DEF CommandSends, ConsumerSends, IntakeTypes
  <2>6. \A j \in Commands : commandOutbox'[j].acknowledged = (j = i \/ commandOutbox[j].acknowledged)
    BY <1>1, <2>1 DEF IntakeTypes
  <2>7. CommandSends'
    <3> SUFFICES ASSUME NEW j \in Commands PROVE ConsumerSends(j)'
      BY DEF CommandSends
    <3>1. ConsumerSends(j)  BY <1>1 DEF CommandSends
    <3>2. CASE j = i
      <4>1. commandOutbox'[j].acknowledged  BY <3>2, <2>6
      <4>2. sent'[Orchestrate(j)] = 0  BY <3>2, <2>5, <1>2
      <4>3. \A v \in Consumers : Scheduling(v, j)' => v = w  BY <3>2, <2>4, <2>5
      <4> QED  BY <4>1, <4>2, <4>3 DEF ConsumerSends
    <3>3. CASE j # i
      BY <3>1, <3>3, <2>4, <2>6, <1>2 DEF ConsumerSends
    <3> QED  BY <3>2, <3>3
  <2> QED  BY <1>2, <2>2, <2>3, <2>7, ConsumerFrame
<1> QED  BY <1>3, <1>4

LEMMA ScheduleOrchestrationInv ==
  ASSUME IInv, NEW w \in Consumers, NEW i \in Commands, ScheduleOrchestration(w, i)
  PROVE  IInv'
<1>1. IntakeTypes /\ Busy /\ CommandSends  BY DEF IInv
<1>2. /\ Scheduling(w, i) /\ sent' = [sent EXCEPT ![Orchestrate(i)] = @ + 1]
      /\ consumer' = [consumer EXCEPT ![w] = ConsumerIdle]
      /\ UNCHANGED <<command, commandOutbox, bulkBatch, transfer, bill, server, deliveries, answered>>
  BY DEF ScheduleOrchestration, Scheduling, Send, ConsumerBecomes, ConsumerIdle, Orchestrate
<1>3. IntakeTypes'
  <2>1. sent' \in [WorkerTasks -> Nat]  BY <1>1, <1>2, HooksTyped DEF IntakeTypes
  <2> QED  BY <1>1, <1>2, <2>1 DEF IntakeTypes, ConsumerIdle
<1>4. Busy'  BY <1>1, <1>2 DEF Busy, IntakeTypes
<1>5. /\ \A b \in Batches : sent'[Process(b)] = sent[Process(b)]
      /\ \A j \in Commands \cup Payments : j # i => sent'[Orchestrate(j)] = sent[Orchestrate(j)]
      /\ sent'[Orchestrate(i)] = sent[Orchestrate(i)] + 1
  BY <1>1, <1>2, HooksTyped, KindsDiffer DEF IntakeTypes
<1>6. i \notin Payments  BY IntakeAssumption
<1>7. \A v \in Consumers, j \in Commands : Scheduling(v, j)' => Scheduling(v, j) /\ v # w
  BY <1>1, <1>2 DEF Scheduling, IntakeTypes, ConsumerIdle
<1>8. CommandSends'
  <2> SUFFICES ASSUME NEW j \in Commands PROVE ConsumerSends(j)'
    BY DEF CommandSends
  <2>1. ConsumerSends(j)  BY <1>1 DEF CommandSends
  <2>2. CASE j = i
    <3>1. /\ commandOutbox[i].acknowledged /\ sent[Orchestrate(i)] = 0
          /\ \A v \in Consumers : Scheduling(v, i) => v = w
      BY <2>1, <2>2, <1>2 DEF ConsumerSends
    <3> QED  BY <3>1, <2>2, <1>2, <1>5, <1>7 DEF ConsumerSends
  <2>3. CASE j # i
    BY <2>1, <2>3, <1>2, <1>5, <1>7 DEF ConsumerSends
  <2> QED  BY <2>2, <2>3
<1> QED  BY <1>2, <1>3, <1>4, <1>5, <1>6, <1>8, ConsumerFrame

LEMMA ConsumerCrashInv ==
  ASSUME IInv, NEW w \in Consumers, ConsumerCrash(w)
  PROVE  IInv'
<1>1. IntakeTypes /\ Busy /\ CommandSends  BY DEF IInv
<1>2. /\ consumer[w] # ConsumerIdle /\ consumer' = [consumer EXCEPT ![w] = ConsumerIdle]
      /\ deliveries' = deliveries \cup {consumer[w].item}
      /\ UNCHANGED <<command, commandOutbox, bulkBatch, transfer, bill, server, sent, answered>>
  BY DEF ConsumerCrash, ConsumerBecomes, ConsumerIdle
<1>3. deliveries' \subseteq Commands  BY <1>1, <1>2 DEF IntakeTypes, Busy
<1>4. IntakeTypes'  BY <1>1, <1>2, <1>3 DEF IntakeTypes, ConsumerIdle
<1>5. Busy'  BY <1>1, <1>2 DEF Busy, IntakeTypes
<1>6. \A v \in Consumers, j \in Commands : Scheduling(v, j)' => Scheduling(v, j)
  BY <1>1, <1>2 DEF Scheduling, IntakeTypes, ConsumerIdle
<1>7. CommandSends'  BY <1>1, <1>2, <1>6 DEF CommandSends, ConsumerSends
<1> QED  BY <1>2, <1>4, <1>5, <1>7, ConsumerFrame

\* Every step keeps the invariant.
LEMMA StepInv == IInv /\ [IntakeNext]_intakeVars => IInv'
<1> SUFFICES ASSUME IInv, [IntakeNext]_intakeVars PROVE IInv'
  OBVIOUS
<1>1. CASE UNCHANGED intakeVars
  BY <1>1 DEF intakeVars, IInv, IntakeTypes, Queues, Busy, Stored, AnswersAreTrue, BatchSends, BillSends,
              CommandSends, HookSends, ConsumerSends, Scheduling, Pending
<1>2. ASSUME NEW s \in Servers, ServerStep(s) PROVE IInv'
  BY <1>2, PostBulkInv, ReplayBulkInv, NotifyPaymentInv, NotifyAgainInv, PublishInv,
     EnqueueConsumerInv, SendTaskInv, ServerCrashInv DEF ServerStep
<1>3. ASSUME NEW w \in Consumers, ConsumerStep(w) PROVE IInv'
  BY <1>3, ConsumeInv, AcknowledgeInv, ScheduleOrchestrationInv, ConsumerCrashInv
  DEF ConsumerStep
<1>4. ASSUME NEW b \in Bills, MarkBillPaid(b) PROVE IInv'
  BY <1>4, MarkBillPaidInv
<1> QED  BY <1>1, <1>2, <1>3, <1>4 DEF IntakeNext

----------------------------------------------------------------------------
\* The inductive invariant holds in every reachable state.
THEOREM Invariance == IntakeSpec => []IInv
  BY InitInv, StepInv, PTL DEF IntakeSpec

\* Type correctness: the rows, queues and messages of the intake are well
\* formed (reserve, receive_batch, create_transfer_request).
THEOREM TypeCorrect == IntakeSpec => []IntakeTypes
<1>1. IInv => IntakeTypes  BY DEF IInv
<1> QED  BY <1>1, Invariance, PTL

\* publish and acknowledge_reserved_command hand a task over at most once, for
\* any number of servers, consumers, retries and crashes.
THEOREM HandoverOnce == IntakeSpec => []HandedOverOnce
<1>1. IInv => HandedOverOnce
  <2> SUFFICES ASSUME IInv, NEW t \in WorkerTasks PROVE sent[t] <= 1
    BY DEF HandedOverOnce
  <2>1. CASE \E b \in Batches : t = Process(b)
    BY <2>1 DEF IInv, BatchSends, HookSends
  <2>2. CASE \E i \in Payments : t = Orchestrate(i)
    BY <2>2 DEF IInv, BillSends, HookSends
  <2>3. CASE \E i \in Commands : t = Orchestrate(i)
    BY <2>3 DEF IInv, CommandSends, ConsumerSends, Orchestrate
  <2> QED  BY <2>1, <2>2, <2>3, TaskKinds
<1> QED  BY <1>1, Invariance, PTL

\* A request answered "ok" by BulkPaymentView or the bill notification holds
\* its identity and is stored.
THEOREM AnswersTrue == IntakeSpec => []AnswersAreTrue
<1>1. IInv => AnswersAreTrue  BY DEF IInv
<1> QED  BY <1>1, Invariance, PTL
=============================================================================
