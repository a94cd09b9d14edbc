------------------- MODULE RabbitmqBrokerRefinementProofs -------------------
(***************************************************************************)
(* The adapter implements the message lifecycle (MessageLifecycle) under   *)
(* the identity mapping of status, executed and purged, for every value of *)
(* the constants.  The argument: a message only reaches a ready queue or a *)
(* consumer once enqueue has handed it to the broker, every enqueue that   *)
(* is still retrying holds its own message in status "sending", and the    *)
(* status of a handed message stays handed.                                *)
(***************************************************************************)
EXTENDS RabbitmqBrokerProofs

\* The statuses of a message handed to the broker.
HandedStatus == {"sending", "enqueued", "raised"}

\* A thread inside its retry loop is sending its message...
SendingStatus == \A t \in Threads : pc[t] # "idle" => status[emsg[t]] = "sending"
\* ...and no other thread is sending the same message.
OwnMessages ==
    \A t, u \in Threads : t # u /\ pc[t] # "idle" /\ pc[u] # "idle" => emsg[t] # emsg[u]
\* Only handed messages are in a ready queue...
ReadyHanded ==
    \A pq \in PQ, m \in Msgs : ready[pq][m] > 0 => status[m] \in HandedStatus
\* ...or delivered to a consumer.
HeldHanded == \A w \in Consumers : held[w] # NoMsg => status[held[w]] \in HandedStatus

RConj == SendingStatus /\ OwnMessages /\ ReadyHanded /\ HeldHanded

RInv == IInv /\ RConj

\* What a step must do to be a step of the lifecycle or a stutter of it.
AbsStep == [Lifecycle!Next]_Lifecycle!vars

-----------------------------------------------------------------------------
(* Where a copy in a ready queue comes from.                               *)

\* A publish adds copies of its message only.
LEMMA PublishSource ==
    ASSUME NEW r \in [PQ -> [Msgs -> Nat]], NEW pq, NEW m \in Msgs, NEW decl
    PROVE  \A p \in PQ, n \in Msgs : Publish(r, pq, m, decl)[p][n] > 0 => r[p][n] > 0 \/ n = m
BY DEF Publish

\* The server's requeue adds copies of delivered messages only.
LEMMA RequeuedSource ==
    ASSUME TypeData
    PROVE  \A p \in PQ, n \in Msgs :
              Requeued[p][n] > 0 => ready[p][n] > 0 \/ \E w \in Consumers : held[w] = n
<1>. SUFFICES ASSUME NEW p \in PQ, NEW n \in Msgs, Requeued[p][n] > 0,
                     ~(ready[p][n] > 0)
              PROVE  \E w \in Consumers : held[w] = n
  OBVIOUS
<1>. DEFINE S == {v \in Consumers : consuming[v] /\ held[v] = n /\ CQueue[v] = p}
<1>1. IsFiniteSet(S) /\ Cardinality(S) \in Nat
  BY ConstantsAssumption, FS_Subset, FS_CardinalityType
<1>2. Requeued[p][n] = ready[p][n] + Cardinality(S) /\ ready[p][n] = 0
  BY DEF Requeued, TypeData
<1>3. S # {}
  BY <1>1, <1>2, FS_EmptySet
<1>. QED  BY <1>3

\* A step in which every handed message stays handed, every new ready copy
\* comes from a ready copy, a delivery or a message handed now, and every
\* new delivery from a ready copy, keeps ReadyHanded and HeldHanded.
LEMMA HandedStep ==
    ASSUME TypeData, ReadyHanded, HeldHanded,
           held' \in [Consumers -> Msgs \cup {NoMsg}],
           \A m \in Msgs : status[m] \in HandedStatus => status'[m] \in HandedStatus,
           \A p \in PQ, n \in Msgs :
              ready'[p][n] > 0 =>
                 \/ ready[p][n] > 0
                 \/ \E w \in Consumers : held[w] = n
                 \/ status'[n] \in HandedStatus,
           \A w \in Consumers :
              held'[w] # NoMsg => held'[w] = held[w] \/ \E p \in PQ : ready[p][held'[w]] > 0
    PROVE  ReadyHanded' /\ HeldHanded'
<1>1. ReadyHanded'
  BY ConstantsAssumption DEF ReadyHanded, HeldHanded, TypeData
<1>2. HeldHanded'
  <2>. SUFFICES ASSUME NEW w \in Consumers, held'[w] # NoMsg
                PROVE  status'[held'[w]] \in HandedStatus
    BY DEF HeldHanded
  <2>1. held'[w] \in Msgs
    OBVIOUS
  <2>2. status[held'[w]] \in HandedStatus
    BY <2>1 DEF ReadyHanded, HeldHanded
  <2>. QED  BY <2>1, <2>2
<1>. QED  BY <1>1, <1>2

\* A step that changes none of the lifecycle's variables is a stutter of it.
LEMMA AbsStutter ==
    ASSUME UNCHANGED <<status, executed, purged>>
    PROVE  AbsStep
BY DEF AbsStep, Lifecycle!vars

-----------------------------------------------------------------------------
(* The steps.                                                              *)

LEMMA InitRInv == Init => RInv
<1>. SUFFICES ASSUME Init PROVE RInv
  OBVIOUS
<1>1. IInv
  BY InitIInv
<1>2. RConj
  BY ConstantsAssumption DEF Init, RConj, SendingStatus, OwnMessages, ReadyHanded,
                             HeldHanded
<1>. QED  BY <1>1, <1>2 DEF RInv

\* The steps that touch neither the messages nor the queues' contents:
\* declare_queue, consume, join, a server restart.
LEMMA QuietStep ==
    ASSUME RInv, UNCHANGED <<status, executed, purged, pc, emsg, ready, held>>
    PROVE  RConj' /\ AbsStep
<1>1. RConj'
  BY DEF RInv, RConj, SendingStatus, OwnMessages, ReadyHanded, HeldHanded
<1>. QED  BY <1>1, AbsStutter

\* Closing the connection: the server requeues the deliveries.
LEMMA RequeueStep ==
    ASSUME RInv, ready' = Requeued, UNCHANGED <<status, executed, purged, pc, emsg, held>>
    PROVE  RConj' /\ AbsStep
<1>1. ReadyHanded' /\ HeldHanded'
  <2>1. Requeued \in [PQ -> [Msgs -> Nat]]
    BY RequeuedType DEF RInv, IInv
  <2>. QED  BY <2>1, RequeuedSource, HandedStep DEF RInv, IInv, RConj, TypeData
<1>2. SendingStatus' /\ OwnMessages'
  BY DEF RInv, RConj, SendingStatus, OwnMessages
<1>. QED  BY <1>1, <1>2, AbsStutter DEF RConj


\* A message not handed yet has no copy on the server and no holder.
LEMMA NotHandedAbsent ==
    ASSUME TypeData, ReadyHanded, HeldHanded, NEW m \in Msgs,
           status[m] \notin HandedStatus
    PROVE  /\ \A pq \in PQ : ~(ready[pq][m] > 0)
           /\ \A w \in Consumers : held[w] # m
BY ConstantsAssumption DEF ReadyHanded, HeldHanded

\* enqueue(m) starts: a rejection or the first attempt is a Submit of the
\* lifecycle.
LEMMA SendRStep ==
    ASSUME RInv, NEW t \in Threads, NEW m \in Msgs, Send(t, m)
    PROVE  RConj' /\ AbsStep
<1>. USE ConstantsAssumption DEF brokerVars, serverVars, enqVars, consVars,
                                 histVars, joinVars
<1>1. /\ status[m] = "unsent" /\ pc[t] = "idle"
      /\ UNCHANGED <<ready, held, executed, purged>>
  BY DEF Send
<1>2. /\ \A pq \in PQ : ~(ready[pq][m] > 0)
      /\ \A w \in Consumers : held[w] # m
      /\ \A u \in Threads : pc[u] # "idle" => emsg[u] # m
  <2>1. status[m] \notin HandedStatus
    BY <1>1 DEF HandedStatus
  <2>2. \A u \in Threads : pc[u] # "idle" => emsg[u] # m
    BY <1>1 DEF RInv, RConj, SendingStatus
  <2>. QED  BY <2>1, <2>2, NotHandedAbsent DEF RInv, RConj, IInv
<1>3. ReadyHanded' /\ HeldHanded'
  <2>1. \A n \in Msgs : n # m => status'[n] = status[n]
    BY DEF Send, RInv, IInv, TypeData
  <2>. QED  BY <1>1, <1>2, <2>1, HandedStep DEF RInv, RConj, IInv, TypeData, HandedStatus
<1>4. CASE m \in Orphans \/ MsgQueue[m] \notin queues
  <2>1. /\ status' = [status EXCEPT ![m] = "rejected"]
        /\ UNCHANGED <<pc, emsg>>
    BY <1>4 DEF Send
  <2>2. SendingStatus' /\ OwnMessages'
    BY <1>2, <2>1 DEF RInv, RConj, SendingStatus, OwnMessages
  <2>3. Lifecycle!Submit(m)
    BY <1>1, <2>1 DEF Lifecycle!Submit
  <2>. QED  BY <1>3, <2>2, <2>3 DEF RConj, AbsStep, Lifecycle!Next
<1>5. CASE ~(m \in Orphans \/ MsgQueue[m] \notin queues)
  <2>1. /\ status' = [status EXCEPT ![m] = "sending"]
        /\ pc' = [pc EXCEPT ![t] = "try"]
        /\ emsg' = [emsg EXCEPT ![t] = m]
    BY <1>5 DEF Send
  <2>2. SendingStatus'
    BY <1>2, <2>1 DEF RInv, IInv, TypeData, RConj, SendingStatus
  <2>3. OwnMessages'
    BY <1>2, <2>1 DEF RInv, IInv, TypeData, RConj, OwnMessages
  <2>4. Lifecycle!Submit(m)
    BY <1>1, <2>1 DEF Lifecycle!Submit
  <2>. QED  BY <1>3, <2>2, <2>3, <2>4 DEF RConj, AbsStep, Lifecycle!Next
<1>. QED  BY <1>4, <1>5

\* A step of enqueue's retry loop in thread t: it may publish its own
\* message (to a fresh or a requeued server state), and it either goes on
\* with the status unchanged or leaves the loop with the message enqueued or
\* raised, which is a Finish of the lifecycle.
LEMMA ThreadStep ==
    ASSUME RInv, NEW t \in Threads, pc[t] # "idle",
           UNCHANGED <<executed, purged, emsg, held>>,
           \A u \in Threads : u # t => pc'[u] = pc[u],
           \/ status' = status /\ pc'[t] # "idle"
           \/ \E s \in {"enqueued", "raised"} :
                 status' = [status EXCEPT ![emsg[t]] = s] /\ pc'[t] = "idle",
           \A p \in PQ, n \in Msgs :
              ready'[p][n] > 0 =>
                 ready[p][n] > 0 \/ (\E w \in Consumers : held[w] = n) \/ n = emsg[t]
    PROVE  RConj' /\ AbsStep
<1>. DEFINE m == emsg[t]
<1>1. m \in Msgs /\ status[m] = "sending"
      /\ \A u \in Threads : u # t /\ pc[u] # "idle" => emsg[u] # m
  BY DEF RInv, IInv, MsgsOK, RConj, SendingStatus, OwnMessages
<1>2. CASE status' = status /\ pc'[t] # "idle"
  <2>1. ReadyHanded' /\ HeldHanded'
    BY <1>1, <1>2, HandedStep DEF RInv, IInv, RConj, TypeData, HandedStatus
  <2>2. SendingStatus' /\ OwnMessages'
    BY <1>1, <1>2 DEF RInv, RConj, SendingStatus, OwnMessages
  <2>. QED  BY <1>2, <2>1, <2>2, AbsStutter DEF RConj
<1>3. CASE \E s \in {"enqueued", "raised"} :
              status' = [status EXCEPT ![m] = s] /\ pc'[t] = "idle"
  <2>1. PICK s \in {"enqueued", "raised"} :
               status' = [status EXCEPT ![m] = s] /\ pc'[t] = "idle"
    BY <1>3
  <2>2. /\ status'[m] \in HandedStatus
        /\ \A n \in Msgs : n # m => status'[n] = status[n]
    BY <1>1, <2>1 DEF RInv, IInv, TypeData, HandedStatus
  <2>3. ReadyHanded' /\ HeldHanded'
    BY <1>1, <2>2, HandedStep DEF RInv, IInv, RConj, TypeData, HandedStatus
  <2>4. SendingStatus'
    <3>. SUFFICES ASSUME NEW u \in Threads, pc'[u] # "idle"
                  PROVE  status'[emsg'[u]] = "sending"
      BY DEF SendingStatus
    <3>1. u # t /\ pc[u] # "idle"
      BY <2>1
    <3>. QED  BY <1>1, <2>2, <3>1 DEF RInv, IInv, MsgsOK, RConj, SendingStatus
  <2>5. OwnMessages'
    BY <2>1 DEF RInv, RConj, OwnMessages
  <2>6. Lifecycle!Finish(m)
    BY <1>1, <2>1 DEF Lifecycle!Finish
  <2>7. AbsStep
    BY <1>1, <2>6 DEF AbsStep, Lifecycle!Next
  <2>. QED  BY <2>3, <2>4, <2>5, <2>7 DEF RConj
<1>. QED  BY <1>2, <1>3

\* One pass through enqueue's try block refines a stutter, or a Finish when
\* the publish returns.
LEMMA TryRStep ==
    ASSUME RInv, NEW t \in Threads, Try(t)
    PROVE  RConj' /\ AbsStep
<1>. USE ConstantsAssumption DEF brokerVars, serverVars, enqVars, consVars,
                                 histVars, joinVars
<1>. DEFINE m == emsg[t]
<1>1. /\ pc[t] = "try" /\ m \in Msgs
      /\ TypeData /\ Requeued \in [PQ -> [Msgs -> Nat]]
  BY RequeuedType DEF Try, RInv, IInv, MsgsOK
<1>2. \A p \in PQ, n \in Msgs :
         Requeued[p][n] > 0 => ready[p][n] > 0 \/ \E w \in Consumers : held[w] = n
  BY <1>1, RequeuedSource
<1>3. \A p \in PQ, n \in Msgs :
         Publish(ready, Target(m), m, DeclaredByEnqueue)[p][n] > 0 => ready[p][n] > 0 \/ n = m
  BY <1>1, PublishSource DEF TypeData
<1>4. \A p \in PQ, n \in Msgs :
         Publish(Requeued, Target(m), m, DeclaredByEnqueue)[p][n] > 0 =>
            ready[p][n] > 0 \/ (\E w \in Consumers : held[w] = n) \/ n = m
  <2>1. \A p \in PQ, n \in Msgs :
           Publish(Requeued, Target(m), m, DeclaredByEnqueue)[p][n] > 0 =>
              Requeued[p][n] > 0 \/ n = m
    BY <1>1, PublishSource
  <2>. QED  BY <1>2, <2>1
<1>5. ASSUME UNCHANGED <<executed, purged, emsg, held>>,
             \/ status' = status /\ pc' = [pc EXCEPT ![t] = "except"]
             \/ status' = [status EXCEPT ![m] = "enqueued"] /\ pc' = [pc EXCEPT ![t] = "idle"],
             \A p \in PQ, n \in Msgs :
                ready'[p][n] > 0 =>
                   ready[p][n] > 0 \/ (\E w \in Consumers : held[w] = n) \/ n = m
      PROVE  RConj' /\ AbsStep
  <2>1. \A u \in Threads : u # t => pc'[u] = pc[u]
    BY <1>1, <1>5 DEF TypeData
  <2>2. \/ status' = status /\ pc'[t] # "idle"
        \/ \E s \in {"enqueued", "raised"} :
              status' = [status EXCEPT ![m] = s] /\ pc'[t] = "idle"
    BY <1>1, <1>5 DEF TypeData
  <2>. QED  BY <1>1, <1>5, <2>1, <2>2, ThreadStep
<1>6. CASE TryServerDown(t)
  BY <1>5, <1>6 DEF TryServerDown, Fail
<1>7. CASE TryPublished(t)
  BY <1>3, <1>5, <1>7 DEF TryPublished
<1>8. CASE TryChannelError(t)
  BY <1>5, <1>8 DEF TryChannelError, Fail
<1>9. CASE TryConnectionLost(t)
  <2>1. UNCHANGED <<executed, purged, held>>
    BY <1>9 DEF TryConnectionLost
  <2>2. CASE ready' = Publish(Requeued, Target(m), m, DeclaredByEnqueue) /\ Fail(t, "conn")
    BY <1>4, <1>5, <2>1, <2>2 DEF Fail
  <2>3. CASE ready' = Requeued /\ Fail(t, "conn")
    BY <1>2, <1>5, <2>1, <2>3 DEF Fail
  <2>4. CASE /\ ready' = Requeued
             /\ pc' = [pc EXCEPT ![t] = "idle"]
             /\ status' = [status EXCEPT ![m] = "enqueued"]
             /\ UNCHANGED emsg
    BY <1>2, <1>5, <2>1, <2>4
  <2>. QED  BY <1>9, <2>2, <2>3, <2>4 DEF TryConnectionLost
<1>. QED  BY <1>6, <1>7, <1>8, <1>9 DEF Try

\* enqueue's except block refines a stutter, or a Finish when it raises
\* ConnectionClosed.
LEMMA ExceptRStep ==
    ASSUME RInv, NEW t \in Threads, Except(t)
    PROVE  RConj' /\ AbsStep
<1>. DEFINE m == emsg[t]
<1>1. /\ pc[t] = "except" /\ m \in Msgs /\ TypeData
      /\ UNCHANGED <<executed, purged, emsg, held>>
  BY DEF Except, RInv, IInv, MsgsOK
<1>2. \A p \in PQ, n \in Msgs :
         ready'[p][n] > 0 => ready[p][n] > 0 \/ \E w \in Consumers : held[w] = n
  <2>1. CASE err[t] = "conn" /\ connUp
    <3>1. ready' = Requeued
      BY <2>1 DEF Except, CloseConnection
    <3>. QED  BY <1>1, <3>1, RequeuedSource
  <2>2. CASE ~(err[t] = "conn" /\ connUp)
    BY <2>2 DEF Except
  <2>. QED  BY <2>1, <2>2
<1>3. \/ status' = status /\ pc' = [pc EXCEPT ![t] = "try"]
      \/ status' = [status EXCEPT ![m] = "raised"] /\ pc' = [pc EXCEPT ![t] = "idle"]
  BY DEF Except
<1>4. \A u \in Threads : u # t => pc'[u] = pc[u]
  BY <1>1, <1>3 DEF TypeData
<1>5. \/ status' = status /\ pc'[t] # "idle"
      \/ \E s \in {"enqueued", "raised"} :
            status' = [status EXCEPT ![m] = s] /\ pc'[t] = "idle"
  BY <1>1, <1>3 DEF TypeData
<1>. QED  BY <1>1, <1>2, <1>4, <1>5, ThreadStep

\* A step of a consumer or of the server that leaves enqueue alone keeps
\* RConj when its new ready copies and deliveries come from old ones.
LEMMA ConsumerStep ==
    ASSUME RInv, UNCHANGED <<status, pc, emsg>>,
           held' \in [Consumers -> Msgs \cup {NoMsg}],
           \A p \in PQ, n \in Msgs :
              ready'[p][n] > 0 => ready[p][n] > 0 \/ \E w \in Consumers : held[w] = n,
           \A w \in Consumers :
              held'[w] # NoMsg => held'[w] = held[w] \/ \E p \in PQ : ready[p][held'[w]] > 0
    PROVE  RConj'
<1>1. ReadyHanded' /\ HeldHanded'
  BY HandedStep DEF RInv, IInv, RConj
<1>2. SendingStatus' /\ OwnMessages'
  BY DEF RInv, RConj, SendingStatus, OwnMessages
<1>. QED  BY <1>1, <1>2 DEF RConj

\* next(consumer) takes a ready copy: a stutter of the lifecycle.
LEMMA FetchRStep ==
    ASSUME RInv, NEW w \in Consumers, Fetch(w)
    PROVE  RConj' /\ AbsStep
<1>. USE DEF brokerVars, enqVars, histVars, joinVars
<1>1. PICK m \in Msgs :
         /\ ready[CQueue[w]][m] > 0
         /\ ready' = [ready EXCEPT ![CQueue[w]][m] = @ - 1]
         /\ held' = [held EXCEPT ![w] = m]
  BY DEF Fetch
<1>2. UNCHANGED <<status, executed, purged, pc, emsg>> /\ TypeData /\ CQueue[w] \in PQ
  BY ConstantsAssumption DEF Fetch, RInv, IInv, PQ, Kinds
<1>3. held' \in [Consumers -> Msgs \cup {NoMsg}]
  BY <1>1, <1>2 DEF TypeData
<1>4. \A p \in PQ, n \in Msgs : ready'[p][n] > 0 => ready[p][n] > 0
  BY <1>1, <1>2 DEF TypeData
<1>5. \A v \in Consumers :
         held'[v] # NoMsg => held'[v] = held[v] \/ \E p \in PQ : ready[p][held'[v]] > 0
  BY <1>1, <1>2 DEF TypeData
<1>. QED  BY <1>2, <1>3, <1>4, <1>5, ConsumerStep, AbsStutter

\* The worker's handling of a delivery: moving a delayed message to its
\* main queue is a stutter, running the actor is a Run of a handed message.
LEMMA ProcessRStep ==
    ASSUME RInv, NEW w \in Consumers, Process(w)
    PROVE  RConj' /\ AbsStep
<1>. USE DEF brokerVars, enqVars, histVars, joinVars
<1>. DEFINE m == held[w]
<1>1. /\ m \in Msgs /\ status[m] \in HandedStatus /\ TypeData
      /\ UNCHANGED <<status, purged, pc, emsg, held>>
  BY ConstantsAssumption DEF Process, RInv, IInv, TypeData, RConj, HeldHanded
<1>2. CASE CQueue[w][2] = "DQ"
  <2>1. ready' = Publish(ready, QName(CQueue[w][1]), m, declared) /\ UNCHANGED executed
    BY <1>2 DEF Process
  <2>2. \A p \in PQ, n \in Msgs :
           ready'[p][n] > 0 => ready[p][n] > 0 \/ \E v \in Consumers : held[v] = n
    BY <1>1, <2>1, PublishSource DEF TypeData
  <2>. QED  BY <1>1, <2>1, <2>2, ConsumerStep, AbsStutter DEF TypeData
<1>3. CASE CQueue[w][2] # "DQ"
  <2>1. executed' = [executed EXCEPT ![m] = @ + 1] /\ UNCHANGED ready
    BY <1>3 DEF Process
  <2>2. RConj'
    BY <1>1, <2>1, ConsumerStep DEF TypeData
  <2>3. Lifecycle!Run(m)
    BY <1>1, <2>1 DEF Lifecycle!Run, Lifecycle!Handed, HandedStatus
  <2>4. AbsStep
    BY <1>1, <2>3 DEF AbsStep, Lifecycle!Next
  <2>. QED  BY <2>2, <2>4
<1>. QED  BY <1>2, <1>3

\* ack or nack ends a delivery; a dead-letter copy is of the held message:
\* a stutter of the lifecycle.
LEMMA SettleRStep ==
    ASSUME RInv, NEW w \in Consumers, Settle(w)
    PROVE  RConj' /\ AbsStep
<1>. USE DEF brokerVars, enqVars, histVars, joinVars
<1>1. /\ held[w] \in Msgs /\ TypeData
      /\ held' = [held EXCEPT ![w] = NoMsg]
      /\ UNCHANGED <<status, executed, purged, pc, emsg>>
  BY DEF Settle, RInv, IInv, MsgsOK
<1>2. held' \in [Consumers -> Msgs \cup {NoMsg}]
  BY <1>1 DEF TypeData
<1>3. \A p \in PQ, n \in Msgs :
         ready'[p][n] > 0 => ready[p][n] > 0 \/ \E v \in Consumers : held[v] = n
  <2>1. CASE consuming[w] /\ verdict[w] = "nack"
    <3>1. ready' = Publish(ready, XQName(CQueue[w][1]), held[w], declared)
      BY <2>1 DEF Settle
    <3>. QED  BY <1>1, <3>1, PublishSource DEF TypeData
  <2>2. CASE ~(consuming[w] /\ verdict[w] = "nack")
    BY <2>2 DEF Settle
  <2>. QED  BY <2>1, <2>2
<1>4. \A v \in Consumers : held'[v] # NoMsg => held'[v] = held[v]
  BY <1>1 DEF TypeData
<1>. QED  BY <1>1, <1>2, <1>3, <1>4, ConsumerStep, AbsStutter

\* flush(q) removes ready copies, every one of a handed message: a Purge of
\* the lifecycle (a stutter when the queue is missing).
LEMMA FlushRStep ==
    ASSUME RInv, NEW q \in Queues, Flush(q)
    PROVE  RConj' /\ AbsStep
<1>. USE DEF brokerVars, enqVars, consVars, histVars, joinVars
<1>. DEFINE S == {m \in Msgs : \E k \in Kinds : ready[<<q, k>>][m] > 0}
<1>1. TypeData /\ UNCHANGED <<status, executed, pc, emsg, held>>
  BY DEF Flush, RInv, IInv
<1>2. held' \in [Consumers -> Msgs \cup {NoMsg}]
  BY <1>1 DEF TypeData
<1>3. CASE QName(q) \in declared
  <2>1. /\ purged' = purged \cup S
        /\ ready' = [pq \in PQ |-> IF pq[1] = q THEN [m \in Msgs |-> 0] ELSE ready[pq]]
    BY <1>3 DEF Flush
  <2>2. \A p \in PQ, n \in Msgs : ready'[p][n] > 0 => ready[p][n] > 0
    BY <1>1, <2>1 DEF TypeData
  <2>3. RConj'
    BY <1>1, <1>2, <2>2, ConsumerStep
  <2>4. S \subseteq Lifecycle!Handed
    <3>. SUFFICES ASSUME NEW m \in S PROVE status[m] \in HandedStatus
      BY DEF Lifecycle!Handed, HandedStatus
    <3>1. PICK k \in Kinds : ready[<<q, k>>][m] > 0
      OBVIOUS
    <3>2. <<q, k>> \in PQ
      BY DEF PQ
    <3>. QED  BY <3>1, <3>2 DEF RInv, RConj, ReadyHanded
  <2>5. Lifecycle!Purge(S)
    BY <1>1, <2>1, <2>4 DEF Lifecycle!Purge
  <2>6. AbsStep
    BY <2>5 DEF AbsStep, Lifecycle!Next
  <2>. QED  BY <2>3, <2>6
<1>4. CASE QName(q) \notin declared
  <2>1. UNCHANGED <<ready, purged>>
    BY <1>4 DEF Flush
  <2>. QED  BY <1>1, <2>1, QuietStep
<1>. QED  BY <1>3, <1>4

\* Every step of the adapter keeps RConj and refines a step or a stutter of
\* the lifecycle.
LEMMA NextRStep == RInv /\ [Next]_vars => RConj' /\ AbsStep
<1>. SUFFICES ASSUME RInv, [Next]_vars PROVE RConj' /\ AbsStep
  OBVIOUS
<1>. USE DEF brokerVars, serverVars, enqVars, consVars, histVars, joinVars
<1>1. CASE \E q \in Queues : DeclareQueue(q)
  BY <1>1, QuietStep DEF DeclareQueue
<1>2. CASE \E t \in Threads, m \in Msgs : Send(t, m)
  BY <1>2, SendRStep
<1>3. CASE \E t \in Threads : Try(t)
  BY <1>3, TryRStep
<1>4. CASE \E t \in Threads : Except(t)
  BY <1>4, ExceptRStep
<1>5. CASE Close
  BY <1>5, RequeueStep DEF Close, CloseConnection
<1>6. CASE \E w \in Consumers : Consume(w)
  BY <1>6, QuietStep DEF Consume
<1>7. CASE \E w \in Consumers : Fetch(w)
  BY <1>7, FetchRStep
<1>8. CASE \E w \in Consumers : Process(w)
  BY <1>8, ProcessRStep
<1>9. CASE \E w \in Consumers : Settle(w)
  BY <1>9, SettleRStep
<1>10. CASE \E q \in Queues : Flush(q)
  BY <1>10, FlushRStep
<1>11. CASE JoinPoll
  BY <1>11, QuietStep DEF JoinPoll
<1>12. CASE JoinTimeout
  BY <1>12, QuietStep DEF JoinTimeout
<1>13. CASE Crash
  BY <1>13, RequeueStep DEF Crash, CloseConnection
<1>14. CASE Restart
  BY <1>14, QuietStep DEF Restart
<1>15. CASE UNCHANGED vars
  BY <1>15, QuietStep DEF vars
<1>. QED  BY <1>1, <1>2, <1>3, <1>4, <1>5, <1>6, <1>7, <1>8, <1>9, <1>10,
             <1>11, <1>12, <1>13, <1>14, <1>15 DEF Next

\* RInv is inductive.
LEMMA NextRInv == RInv /\ [Next]_vars => RInv'
BY NextIInv, NextRStep DEF RInv

\* A cold start of the adapter is the lifecycle's initial state.
LEMMA InitRefines == Init => Lifecycle!Init
BY DEF Init, Lifecycle!Init

\* The adapter implements the message lifecycle: whatever the connections,
\* channels, retries of enqueue, consumer requeues, crashes and flushes do,
\* enqueue's outcome for a message is final, an actor only runs a message
\* enqueue was handed, and flush only purges such messages.
THEOREM Refinement == Spec => LifecycleSpec
<1>1. RInv /\ [Next]_vars => [Lifecycle!Next]_Lifecycle!vars
  BY NextRStep DEF AbsStep
<1>. QED  BY <1>1, InitRInv, NextRInv, InitRefines, PTL
          DEF Spec, LifecycleSpec, Lifecycle!Spec
=============================================================================
