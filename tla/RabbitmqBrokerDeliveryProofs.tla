-------------------- MODULE RabbitmqBrokerDeliveryProofs --------------------
(***************************************************************************)
(* A message of an actor declared at start-up whose enqueue returned is   *)
(* never lost, for every value of the constants, provided publishes are    *)
(* confirmed (confirm_delivery=True); without confirms a publish buffered  *)
(* when the connection drops is lost.  When every actor is declared at     *)
(* start-up (LateQueues is empty) this covers every message; a late        *)
(* actor's message may be dropped, as the run late_queue_loss shows.       *)
(***************************************************************************)
EXTENDS RabbitmqBrokerProofs

\* The conjuncts of DeliveryInv, one per fact.
OwedOrSettled ==
    \A m \in Msgs :
        status[m] = "enqueued" /\ MsgQueue[m] \notin LateQueues => Owed(m) \/ Settled(m)
TopologyDeclared == queuesDeclared => DeclareRabbitmqQueues(queues \ LateQueues) \subseteq declared
ConsumerQueueDeclared ==
    \A w \in Consumers : consuming[w] \/ held[w] # NoMsg => QName(CQueue[w][1]) \in declared
MainVerdictRan ==
    \A w \in Consumers : verdict[w] # "none" /\ CQueue[w][2] = "Q" => executed[held[w]] > 0
DelayVerdictAck ==
    \A w \in Consumers : verdict[w] # "none" /\ CQueue[w][2] = "DQ" => verdict[w] = "ack"
SendingHeld ==
    \A t \in Threads :
        pc[t] # "idle" => status[emsg[t]] = "sending" /\ MsgQueue[emsg[t]] \in queues
SendingDistinct ==
    \A t, u \in Threads : t # u /\ pc[t] # "idle" /\ pc[u] # "idle" => emsg[t] # emsg[u]

DConj ==
    /\ OwedOrSettled /\ TopologyDeclared /\ ConsumerQueueDeclared
    /\ MainVerdictRan /\ DelayVerdictAck /\ SendingHeld /\ SendingDistinct

DInv == IInv /\ DConj

\* DeliveryInv is the conjunction of the facts above.
LEMMA DeliveryInvSplit ==
    DeliveryInv <=> DConj
BY Zenon DEF DConj, DeliveryInv, OwedOrSettled, TopologyDeclared, ConsumerQueueDeclared,
             MainVerdictRan, DelayVerdictAck, SendingHeld, SendingDistinct

-----------------------------------------------------------------------------
(* How the ready counts change.                                            *)

\* A publish never removes a copy, and adds one to a queue the server has.
LEMMA PublishGrows ==
    ASSUME NEW r \in [PQ -> [Msgs -> Nat]], NEW pq \in PQ, NEW m \in Msgs,
           NEW decl \in SUBSET PQ
    PROVE  /\ \A p \in PQ, n \in Msgs : Publish(r, pq, m, decl)[p][n] >= r[p][n]
           /\ pq \in decl => Publish(r, pq, m, decl)[pq][m] >= 1
BY DEF Publish

\* The server's requeue never removes a copy, and puts back one copy of
\* every delivery on an open consumer channel.
LEMMA RequeuedGrows ==
    ASSUME TypeData
    PROVE  /\ \A p \in PQ, n \in Msgs : Requeued[p][n] >= ready[p][n]
           /\ \A w \in Consumers :
                 consuming[w] /\ held[w] \in Msgs => Requeued[CQueue[w]][held[w]] >= 1
<1>. DEFINE S(p, n) == {v \in Consumers : consuming[v] /\ held[v] = n /\ CQueue[v] = p}
<1>1. \A p \in PQ, n \in Msgs : IsFiniteSet(S(p, n)) /\ Cardinality(S(p, n)) \in Nat
  BY ConstantsAssumption, FS_Subset, FS_CardinalityType
<1>2. \A p \in PQ, n \in Msgs : Requeued[p][n] = ready[p][n] + Cardinality(S(p, n))
  BY DEF Requeued
<1>3. \A w \in Consumers : CQueue[w] \in PQ
  BY ConstantsAssumption DEF PQ, Kinds
<1>4. ASSUME NEW w \in Consumers, consuming[w], held[w] \in Msgs
      PROVE  Cardinality(S(CQueue[w], held[w])) >= 1
  <2>1. w \in S(CQueue[w], held[w])
    BY <1>4
  <2>2. IsFiniteSet(S(CQueue[w], held[w]))
        /\ Cardinality(S(CQueue[w], held[w])) \in Nat
    BY <1>1, <1>3, <1>4
  <2>3. Cardinality(S(CQueue[w], held[w])) # 0
    BY <2>1, <2>2, FS_EmptySet
  <2>. QED  BY <2>2, <2>3
<1>5. \A p \in PQ, n \in Msgs : Requeued[p][n] >= ready[p][n]
  <2>. SUFFICES ASSUME NEW p \in PQ, NEW n \in Msgs
                PROVE  Requeued[p][n] >= ready[p][n]
    OBVIOUS
  <2>1. Cardinality(S(p, n)) \in Nat /\ ready[p][n] \in Nat
    BY <1>1 DEF TypeData
  <2>2. Requeued[p][n] = ready[p][n] + Cardinality(S(p, n))
    BY <1>2
  <2>. QED  BY <2>1, <2>2
<1>6. \A w \in Consumers :
         consuming[w] /\ held[w] \in Msgs => Requeued[CQueue[w]][held[w]] >= 1
  <2>. SUFFICES ASSUME NEW w \in Consumers, consuming[w], held[w] \in Msgs
                PROVE  Requeued[CQueue[w]][held[w]] >= 1
    OBVIOUS
  <2>1. Requeued[CQueue[w]][held[w]]
           = ready[CQueue[w]][held[w]] + Cardinality(S(CQueue[w], held[w]))
    BY <1>2, <1>3
  <2>2. ready[CQueue[w]][held[w]] \in Nat
    BY <1>3 DEF TypeData
  <2>3. /\ Cardinality(S(CQueue[w], held[w])) >= 1
        /\ Cardinality(S(CQueue[w], held[w])) \in Nat
    BY <1>1, <1>3, <1>4
  <2>. QED  BY <2>1, <2>2, <2>3
<1>. QED  BY <1>5, <1>6

\* A step that only adds copies of m, and leaves alone the consumers that
\* hold m (a consumer channel may open), keeps what the server owes m and
\* whether m has settled.
LEMMA KeepOwed ==
    ASSUME TypeData, NEW m \in Msgs, Owed(m) \/ Settled(m),
           ready' \in [PQ -> [Msgs -> Nat]],
           \A p \in PQ : ready'[p][m] >= ready[p][m],
           held' = held,
           \A w \in Consumers : held[w] = m => /\ consuming[w] => consuming'[w]
                                               /\ verdict'[w] = verdict[w],
           executed'[m] = executed[m],
           purged' = purged
    PROVE  (Owed(m) \/ Settled(m))'
<1>1. XQName(MsgQueue[m]) \in PQ
  BY ConstantsAssumption DEF XQName, PQ, Kinds
<1>2. CASE \E pq \in PQ : ready[pq][m] > 0
  <2>1. PICK pq \in PQ : ready[pq][m] > 0
    BY <1>2
  <2>2. ready'[pq][m] > 0
    BY <2>1 DEF TypeData
  <2>. QED  BY <2>2 DEF Owed
<1>3. CASE \E w \in Consumers : /\ held[w] = m
                                /\ consuming[w]
                                /\ ~(CQueue[w][2] = "DQ" /\ verdict[w] = "ack")
  BY <1>3 DEF Owed
<1>4. CASE Settled(m)
  BY <1>1, <1>4 DEF Settled, TypeData
<1>. QED  BY <1>2, <1>3, <1>4 DEF Owed

\* Closing the connection keeps what the server owes: every delivery on an
\* open consumer channel is back in its queue.
LEMMA KeepOwedOnClose ==
    ASSUME TypeData, NEW m \in Msgs, Owed(m) \/ Settled(m),
           ready' \in [PQ -> [Msgs -> Nat]],
           \A p \in PQ, n \in Msgs : ready'[p][n] >= Requeued[p][n],
           UNCHANGED <<held, executed, purged>>
    PROVE  (Owed(m) \/ Settled(m))'
<1>1. XQName(MsgQueue[m]) \in PQ
  BY ConstantsAssumption DEF XQName, PQ, Kinds
<1>0. Requeued \in [PQ -> [Msgs -> Nat]]
  BY RequeuedType
<1>2. \A p \in PQ, n \in Msgs : ready'[p][n] >= ready[p][n]
  BY <1>0, RequeuedGrows DEF TypeData
<1>3. CASE \E pq \in PQ : ready[pq][m] > 0
  BY <1>2, <1>3 DEF Owed, TypeData
<1>4. CASE \E w \in Consumers : held[w] = m /\ consuming[w]
  <2>1. PICK w \in Consumers : held[w] = m /\ consuming[w]
    BY <1>4
  <2>2. CQueue[w] \in PQ /\ ready'[CQueue[w]][m] >= 1
    BY <1>0, <2>1, RequeuedGrows, ConstantsAssumption DEF TypeData, PQ, Kinds
  <2>. QED  BY <2>2 DEF Owed
<1>5. CASE Settled(m)
  BY <1>1, <1>2, <1>5 DEF Settled, TypeData
<1>. QED  BY <1>3, <1>4, <1>5 DEF Owed
-----------------------------------------------------------------------------
(* The inductive invariant, from the start through every step.             *)

\* A cold start owes nothing and has declared nothing.
LEMMA InitDInv == Init => DInv
<1>. SUFFICES ASSUME Init PROVE DInv
  OBVIOUS
<1>1. IInv
  BY InitIInv
<1>2. DConj
  BY ConstantsAssumption
  DEF Init, DConj, OwedOrSettled, TopologyDeclared, ConsumerQueueDeclared,
      MainVerdictRan, DelayVerdictAck, SendingHeld, SendingDistinct
<1>. QED  BY <1>1, <1>2 DEF DInv

\* enqueue's first step keeps the invariant: the message is sent by one
\* thread only, and only if its actor is declared.
LEMMA SendDConj ==
    ASSUME DInv, NEW t \in Threads, NEW m \in Msgs, Send(t, m)
    PROVE  DConj'
<1>. USE ConstantsAssumption DEF brokerVars, serverVars, enqVars, consVars,
                                 histVars, joinVars
<1>1. UNCHANGED <<brokerVars, serverVars, err, stale, consVars, executed,
                  purged, joinVars>>
  BY DEF Send
<1>2. \A n \in Msgs : n # m => (Owed(n) \/ Settled(n))' = (Owed(n) \/ Settled(n))
  BY <1>1 DEF Owed, Settled
<1>3. \A u \in Threads : pc[u] # "idle" => emsg[u] # m
  BY DEF Send, DInv, DConj, SendingHeld
<1>4. CASE m \in Orphans \/ MsgQueue[m] \notin queues
  <2>1. status' = [status EXCEPT ![m] = "rejected"] /\ UNCHANGED enqVars
    BY <1>4 DEF Send
  <2>2. OwedOrSettled'
    BY <1>2, <2>1 DEF DInv, IInv, TypeData, DConj, OwedOrSettled
  <2>3. TopologyDeclared'
    BY <1>1 DEF DInv, DConj, TopologyDeclared
  <2>. QED  BY <1>1, <1>3, <2>1, <2>2, <2>3
            DEF DInv, IInv, TypeData, DConj, ConsumerQueueDeclared,
                MainVerdictRan, DelayVerdictAck, SendingHeld, SendingDistinct
<1>5. CASE ~(m \in Orphans \/ MsgQueue[m] \notin queues)
  <2>1. /\ status' = [status EXCEPT ![m] = "sending"]
        /\ pc' = [pc EXCEPT ![t] = "try"]
        /\ emsg' = [emsg EXCEPT ![t] = m]
        /\ pc[t] = "idle"
    BY <1>5 DEF Send
  <2>2. OwedOrSettled'
    BY <1>2, <2>1 DEF DInv, IInv, TypeData, DConj, OwedOrSettled
  <2>3. TopologyDeclared'
    BY <1>1 DEF DInv, DConj, TopologyDeclared
  <2>. QED  BY <1>1, <1>3, <1>5, <2>1, <2>2, <2>3
            DEF DInv, IInv, TypeData, DConj, ConsumerQueueDeclared,
                MainVerdictRan, DelayVerdictAck, SendingHeld, SendingDistinct
<1>. QED  BY <1>4, <1>5

\* The try block of enqueue keeps the invariant when publishes are
\* confirmed: a publish that returns has reached a declared queue, and a
\* connection lost mid-publish leaves the message with its sender.
LEMMA TryDConj ==
    ASSUME ConfirmDelivery, DInv, NEW t \in Threads, Try(t)
    PROVE  DConj'
<1>. USE ConstantsAssumption DEF brokerVars, serverVars, enqVars, consVars,
                                 histVars, joinVars
<1>. DEFINE m == emsg[t]
<1>1. /\ m \in Msgs /\ status[m] = "sending" /\ MsgQueue[m] \in queues
      /\ \A u \in Threads : u # t /\ pc[u] # "idle" => emsg[u] # m
  BY DEF Try, DInv, IInv, MsgsOK, DConj, SendingHeld, SendingDistinct
<1>2. /\ Target(m) \in PQ
      /\ DeclaredByEnqueue \subseteq PQ
      /\ DeclareRabbitmqQueues(queues \ LateQueues) \subseteq DeclaredByEnqueue
      /\ declared \subseteq DeclaredByEnqueue
      /\ MsgQueue[m] \notin LateQueues => Target(m) \in DeclaredByEnqueue
  <2>1. MsgQueue[m] \notin LateQueues => Target(m) \in DeclareRabbitmqQueues(queues \ LateQueues)
    BY <1>1 DEF Target, QName, DQName, DeclareRabbitmqQueues, Kinds
  <2>2. DeclareRabbitmqQueues(queues \ LateQueues) \subseteq DeclaredByEnqueue
    BY DEF DeclaredByEnqueue, DInv, DConj, TopologyDeclared, DeclareRabbitmqQueues
  <2>3. DeclaredByEnqueue \subseteq PQ /\ declared \subseteq DeclaredByEnqueue
    BY DeclareType DEF DeclaredByEnqueue, DInv, IInv, TypeData
  <2>. QED  BY <1>1, <2>1, <2>2, <2>3, TargetType
<1>3. ready \in [PQ -> [Msgs -> Nat]] /\ Requeued \in [PQ -> [Msgs -> Nat]]
  BY RequeuedType DEF DInv, IInv, TypeData
<1>4. CASE TryServerDown(t)
  <2>1. /\ pc' = [pc EXCEPT ![t] = "except"]
        /\ UNCHANGED <<brokerVars, serverVars, emsg, attempts, status,
                       consVars, executed, purged>>
    BY <1>4 DEF TryServerDown, Fail
  <2>2. OwedOrSettled'
    BY <2>1 DEF DInv, DConj, OwedOrSettled, Owed, Settled
  <2>3. TopologyDeclared'
    BY <2>1 DEF DInv, DConj, TopologyDeclared
  <2>. QED  BY <1>1, <2>1, <2>2, <2>3
            DEF Try, DInv, DConj, ConsumerQueueDeclared,
                MainVerdictRan, DelayVerdictAck, SendingHeld, SendingDistinct
<1>5. CASE TryPublished(t)
  <2>1. /\ declared' = DeclaredByEnqueue
        /\ queuesDeclared' = TRUE
        /\ ready' = Publish(ready, Target(m), m, DeclaredByEnqueue)
        /\ pc' = [pc EXCEPT ![t] = "idle"]
        /\ status' = [status EXCEPT ![m] = "enqueued"]
        /\ UNCHANGED <<queues, emsg, consVars, executed, purged>>
    BY <1>5 DEF TryPublished
  <2>2. /\ ready' \in [PQ -> [Msgs -> Nat]]
        /\ \A p \in PQ, n \in Msgs : ready'[p][n] >= ready[p][n]
        /\ Target(m) \in DeclaredByEnqueue => ready'[Target(m)][m] >= 1
    BY <1>1, <1>2, <1>3, <2>1, PublishType, PublishGrows
  <2>3. OwedOrSettled'
    <3>. SUFFICES ASSUME NEW n \in Msgs, status'[n] = "enqueued",
                         MsgQueue[n] \notin LateQueues
                  PROVE  (Owed(n) \/ Settled(n))'
      BY DEF OwedOrSettled
    <3>1. CASE n = m
      <4>1. Target(m) \in DeclaredByEnqueue
        BY <1>2, <3>1
      <4>. QED  BY <1>2, <2>2, <3>1, <4>1 DEF Owed
    <3>2. CASE n # m
      <4>1. Owed(n) \/ Settled(n)
        BY <1>1, <2>1, <3>2 DEF DInv, DConj, OwedOrSettled, IInv, TypeData
      <4>. QED  BY <2>1, <2>2, <4>1, KeepOwed DEF DInv, IInv
    <3>. QED  BY <3>1, <3>2
  <2>4. TopologyDeclared' /\ ConsumerQueueDeclared'
    BY <1>2, <2>1 DEF TopologyDeclared, ConsumerQueueDeclared, DInv, DConj
  <2>. QED  BY <1>1, <2>1, <2>3, <2>4
            DEF DConj, DInv, MainVerdictRan, DelayVerdictAck, SendingHeld,
                SendingDistinct, IInv, TypeData
<1>6. CASE TryChannelError(t)
  <2>1. /\ pc' = [pc EXCEPT ![t] = "except"]
        /\ UNCHANGED <<queues, queuesDeclared, declared, ready, emsg, status,
                       consVars, executed, purged>>
    BY <1>6 DEF TryChannelError, Fail
  <2>2. OwedOrSettled'
    BY <2>1 DEF DInv, DConj, OwedOrSettled, Owed, Settled
  <2>3. TopologyDeclared'
    BY <2>1 DEF DInv, DConj, TopologyDeclared
  <2>. QED  BY <1>1, <2>1, <2>2, <2>3
            DEF Try, DInv, DConj, ConsumerQueueDeclared,
                MainVerdictRan, DelayVerdictAck, SendingHeld, SendingDistinct
<1>7. CASE TryConnectionLost(t)
  <2>1. /\ declared' = DeclaredByEnqueue
        /\ queuesDeclared' = TRUE
        /\ consuming' = [w \in Consumers |-> FALSE]
        /\ pc' = [pc EXCEPT ![t] = "except"]
        /\ \/ ready' = Publish(Requeued, Target(m), m, DeclaredByEnqueue)
           \/ ready' = Requeued
        /\ UNCHANGED <<queues, emsg, status, held, verdict, executed, purged>>
    BY <1>7 DEF TryConnectionLost, CloseChannels, Fail
  <2>2. /\ ready' \in [PQ -> [Msgs -> Nat]]
        /\ \A p \in PQ, n \in Msgs : ready'[p][n] >= Requeued[p][n]
    <3>1. CASE ready' = Publish(Requeued, Target(m), m, DeclaredByEnqueue)
      BY <1>1, <1>2, <1>3, <3>1, PublishType, PublishGrows
    <3>2. CASE ready' = Requeued
      BY <1>3, <3>2
    <3>. QED  BY <2>1, <3>1, <3>2
  <2>3. OwedOrSettled'
    <3>. SUFFICES ASSUME NEW n \in Msgs, status'[n] = "enqueued",
                         MsgQueue[n] \notin LateQueues
                  PROVE  (Owed(n) \/ Settled(n))'
      BY DEF OwedOrSettled
    <3>1. Owed(n) \/ Settled(n)
      BY <2>1 DEF DInv, DConj, OwedOrSettled
    <3>. QED  BY <2>1, <2>2, <3>1, KeepOwedOnClose DEF DInv, IInv
  <2>4. TopologyDeclared' /\ ConsumerQueueDeclared'
    BY <1>2, <2>1 DEF TopologyDeclared, ConsumerQueueDeclared, DInv, DConj
  <2>. QED  BY <1>1, <2>1, <2>3, <2>4
            DEF DConj, DInv, MainVerdictRan, DelayVerdictAck, SendingHeld,
                SendingDistinct, IInv, TypeData
<1>. QED  BY <1>4, <1>5, <1>6, <1>7 DEF Try

\* A step that closes the connection, or leaves ready and the consumers
\* alone, and changes no status to "enqueued", keeps OwedOrSettled.
LEMMA KeepOwedOrSettled ==
    ASSUME DInv,
           \A n \in Msgs : status'[n] = "enqueued" => status[n] = "enqueued",
           UNCHANGED <<held, executed, purged>>,
           ready' \in [PQ -> [Msgs -> Nat]],
           \/ /\ \A p \in PQ, n \in Msgs : ready'[p][n] >= Requeued[p][n]
           \/ UNCHANGED <<ready, consuming, verdict>>
    PROVE  OwedOrSettled'
<1>. SUFFICES ASSUME NEW n \in Msgs, status'[n] = "enqueued",
                     MsgQueue[n] \notin LateQueues
              PROVE  (Owed(n) \/ Settled(n))'
  BY DEF OwedOrSettled
<1>1. Owed(n) \/ Settled(n)
  BY DEF DInv, DConj, OwedOrSettled
<1>2. TypeData
  BY DEF DInv, IInv
<1>. QED  BY <1>1, <1>2, KeepOwedOnClose, KeepOwed

\* The except block of enqueue keeps the invariant: the message it gives
\* up on is one still being sent.
LEMMA ExceptDConj ==
    ASSUME DInv, NEW t \in Threads, Except(t)
    PROVE  DConj'
<1>. USE ConstantsAssumption DEF brokerVars, serverVars, enqVars, consVars,
                                 histVars, joinVars
<1>. DEFINE m == emsg[t]
<1>1. /\ m \in Msgs /\ status[m] = "sending" /\ MsgQueue[m] \in queues
      /\ \A u \in Threads : u # t /\ pc[u] # "idle" => emsg[u] # m
  BY DEF Except, DInv, IInv, MsgsOK, DConj, SendingHeld, SendingDistinct
<1>2. /\ UNCHANGED <<queues, queuesDeclared, declared, emsg, held, verdict,
                     executed, purged>>
      /\ \A w \in Consumers : consuming'[w] => consuming[w]
      /\ pc'[t] \in {"idle", "try"}
      /\ pc'[t] = "try" => status'[m] = "sending"
      /\ status'[m] # "enqueued"
      /\ \A u \in Threads : u # t => pc'[u] = pc[u]
      /\ \A n \in Msgs : n # m => status'[n] = status[n]
  BY <1>1 DEF Except, CloseConnection, CloseChannels, DInv, IInv, TypeData
<1>3. /\ ready' \in [PQ -> [Msgs -> Nat]]
      /\ \/ \A p \in PQ, n \in Msgs : ready'[p][n] >= Requeued[p][n]
         \/ UNCHANGED <<ready, consuming, verdict>>
  <2>1. CASE err[t] = "conn" /\ connUp
    <3>1. ready' = Requeued
      BY <2>1 DEF Except, CloseConnection
    <3>2. Requeued \in [PQ -> [Msgs -> Nat]]
      BY RequeuedType DEF DInv, IInv
    <3>. QED  BY <3>1, <3>2
  <2>2. CASE ~(err[t] = "conn" /\ connUp)
    BY <2>2 DEF Except, DInv, IInv, TypeData
  <2>. QED  BY <2>1, <2>2
<1>4. OwedOrSettled'
  BY <1>1, <1>2, <1>3, KeepOwedOrSettled
<1>5. TopologyDeclared' /\ ConsumerQueueDeclared'
  BY <1>2 DEF DInv, DConj, TopologyDeclared, ConsumerQueueDeclared
<1>6. MainVerdictRan' /\ DelayVerdictAck'
  BY <1>2 DEF DInv, DConj, MainVerdictRan, DelayVerdictAck
<1>7. SendingHeld'
  <2>. SUFFICES ASSUME NEW u \in Threads, pc'[u] # "idle"
                PROVE  status'[emsg'[u]] = "sending" /\ MsgQueue[emsg'[u]] \in queues'
    BY DEF SendingHeld
  <2>1. CASE u = t
    BY <1>1, <1>2, <2>1
  <2>2. CASE u # t
    <3>1. pc[u] # "idle" /\ emsg[u] \in Msgs /\ emsg[u] # m
      BY <1>1, <1>2, <2>2 DEF DInv, IInv, MsgsOK
    <3>. QED  BY <1>2, <3>1 DEF DInv, DConj, SendingHeld
  <2>. QED  BY <2>1, <2>2
<1>8. SendingDistinct'
  BY <1>1, <1>2 DEF DInv, DConj, SendingDistinct
<1>. QED  BY <1>4, <1>5, <1>6, <1>7, <1>8 DEF DConj

\* close(), a dropped connection and a server stop keep the invariant:
\* the server puts back every delivery on the closed consumer channels.
LEMMA CloseConnectionDConj ==
    ASSUME DInv, CloseConnection,
           UNCHANGED <<queues, queuesDeclared, declared, enqVars, held, verdict,
                       histVars>>
    PROVE  DConj'
<1>. USE DEF enqVars, histVars
<1>1. ready' \in [PQ -> [Msgs -> Nat]] /\ ready' = Requeued
  BY RequeuedType DEF CloseConnection, DInv, IInv
<1>2. OwedOrSettled'
  BY <1>1, KeepOwedOrSettled
<1>3. \A w \in Consumers : consuming'[w] = FALSE
  BY DEF CloseConnection, CloseChannels
<1>. QED  BY <1>2, <1>3
          DEF DConj, DInv, TopologyDeclared, ConsumerQueueDeclared,
              MainVerdictRan, DelayVerdictAck, SendingHeld, SendingDistinct

\* Opening a consumer declares its queue and only adds witnesses.
LEMMA ConsumeDConj ==
    ASSUME DInv, NEW w \in Consumers, Consume(w)
    PROVE  DConj'
<1>. USE ConstantsAssumption DEF brokerVars, serverVars, enqVars, consVars,
                                 histVars, joinVars
<1>1. /\ declared' = declared \cup DeclareRabbitmqQueues(queues)
      /\ consuming' = [consuming EXCEPT ![w] = TRUE]
      /\ held[w] = NoMsg /\ CQueue[w][1] \in queues
      /\ UNCHANGED <<queues, queuesDeclared, ready, pc, emsg, attempts, err,
                     held, verdict, histVars>>
  BY DEF Consume
<1>2. QName(CQueue[w][1]) \in declared'
  BY <1>1 DEF QName, DeclareRabbitmqQueues, Kinds
<1>3. OwedOrSettled'
  <2>. SUFFICES ASSUME NEW n \in Msgs, status'[n] = "enqueued",
                       MsgQueue[n] \notin LateQueues
                PROVE  (Owed(n) \/ Settled(n))'
    BY DEF OwedOrSettled
  <2>1. Owed(n) \/ Settled(n)
    BY <1>1 DEF DInv, DConj, OwedOrSettled
  <2>. QED  BY <1>1, <2>1, KeepOwed DEF DInv, IInv, TypeData
<1>4. ConsumerQueueDeclared'
  <2>. SUFFICES ASSUME NEW v \in Consumers, consuming'[v] \/ held'[v] # NoMsg
                PROVE  QName(CQueue[v][1]) \in declared'
    BY DEF ConsumerQueueDeclared
  <2>1. CASE v = w
    BY <1>2, <2>1
  <2>2. CASE v # w
    <3>1. consuming'[v] = consuming[v]
      BY <1>1, <2>2 DEF DInv, IInv, TypeBool
    <3>2. QName(CQueue[v][1]) \in declared
      BY <1>1, <3>1 DEF DInv, DConj, ConsumerQueueDeclared
    <3>. QED  BY <1>1, <3>2
  <2>. QED  BY <2>1, <2>2
<1>. QED  BY <1>1, <1>3, <1>4
          DEF DConj, DInv, TopologyDeclared, MainVerdictRan, DelayVerdictAck,
              SendingHeld, SendingDistinct

\* A delivery moves a copy from a ready queue to the consumer, which
\* becomes the witness for it.
LEMMA FetchDConj ==
    ASSUME DInv, NEW w \in Consumers, Fetch(w)
    PROVE  DConj'
<1>. USE ConstantsAssumption DEF brokerVars, serverVars, enqVars, consVars,
                                 histVars, joinVars
<1>1. PICK m \in Msgs : /\ ready[CQueue[w]][m] > 0
                       /\ ready' = [ready EXCEPT ![CQueue[w]][m] = @ - 1]
                       /\ held' = [held EXCEPT ![w] = m]
  BY DEF Fetch
<1>2. /\ consuming[w] /\ held[w] = NoMsg /\ verdict[w] = "none"
      /\ UNCHANGED <<brokerVars, declared, enqVars, consuming, verdict, histVars>>
  BY ConstantsAssumption DEF Fetch, DInv, IInv, MsgsOK
<1>3. CQueue[w] \in PQ
  BY DEF PQ, Kinds
<1>4. OwedOrSettled'
  <2>. SUFFICES ASSUME NEW n \in Msgs, status'[n] = "enqueued",
                       MsgQueue[n] \notin LateQueues
                PROVE  (Owed(n) \/ Settled(n))'
    BY DEF OwedOrSettled
  <2>1. CASE n = m
    BY <1>1, <1>2, <2>1 DEF Owed, DInv, IInv, TypeData
  <2>2. CASE n # m
    <3>1. Owed(n) \/ Settled(n)
      BY <1>2 DEF DInv, DConj, OwedOrSettled
    <3>2. /\ \A p \in PQ : ready'[p][n] = ready[p][n]
          /\ \A v \in Consumers : held'[v] = n <=> held[v] = n
      BY <1>1, <1>2, <1>3, <2>2 DEF DInv, IInv, TypeData
    <3>3. XQName(MsgQueue[n]) \in PQ
      BY DEF XQName, PQ, Kinds
    <3>4. CASE \E pq \in PQ : ready[pq][n] > 0
      BY <3>2, <3>4 DEF Owed
    <3>5. CASE \E v \in Consumers : /\ held[v] = n /\ consuming[v]
                                  /\ ~(CQueue[v][2] = "DQ" /\ verdict[v] = "ack")
      BY <1>2, <3>2, <3>5 DEF Owed
    <3>6. CASE Settled(n)
      BY <1>2, <3>2, <3>3, <3>6 DEF Settled
    <3>. QED  BY <3>1, <3>4, <3>5, <3>6 DEF Owed
  <2>. QED  BY <2>1, <2>2
<1>5. ConsumerQueueDeclared' /\ MainVerdictRan' /\ DelayVerdictAck'
  BY <1>1, <1>2 DEF DInv, DConj, ConsumerQueueDeclared, MainVerdictRan,
                    DelayVerdictAck
<1>. QED  BY <1>2, <1>4, <1>5
          DEF DConj, DInv, TopologyDeclared, SendingHeld, SendingDistinct

\* The same, for a step that may change a consumer holding m, as long as
\* the consumers that witness Owed(m) keep their delivery.
LEMMA KeepWitness ==
    ASSUME TypeData, NEW m \in Msgs, Owed(m) \/ Settled(m),
           ready' \in [PQ -> [Msgs -> Nat]],
           \A p \in PQ : ready'[p][m] >= ready[p][m],
           \A w \in Consumers :
              held[w] = m /\ consuming[w] /\ ~(CQueue[w][2] = "DQ" /\ verdict[w] = "ack")
                 => held'[w] = m /\ consuming'[w] /\ verdict'[w] = verdict[w],
           executed'[m] = executed[m],
           purged' = purged
    PROVE  (Owed(m) \/ Settled(m))'
<1>1. XQName(MsgQueue[m]) \in PQ
  BY ConstantsAssumption DEF XQName, PQ, Kinds
<1>2. CASE \E pq \in PQ : ready[pq][m] > 0
  <2>1. PICK pq \in PQ : ready[pq][m] > 0
    BY <1>2
  <2>2. ready'[pq][m] > 0
    BY <2>1 DEF TypeData
  <2>. QED  BY <2>2 DEF Owed
<1>3. CASE \E w \in Consumers : /\ held[w] = m
                                /\ consuming[w]
                                /\ ~(CQueue[w][2] = "DQ" /\ verdict[w] = "ack")
  BY <1>3 DEF Owed
<1>4. CASE Settled(m)
  BY <1>1, <1>4 DEF Settled, TypeData
<1>. QED  BY <1>2, <1>3, <1>4 DEF Owed

\* The worker's handling of a delivery: from the delay queue the copy on
\* the main queue takes over from the delivery; from the main queue the
\* run settles the message.
LEMMA ProcessDConj ==
    ASSUME DInv, NEW w \in Consumers, Process(w)
    PROVE  DConj'
<1>. USE ConstantsAssumption DEF brokerVars, serverVars, enqVars, consVars,
                                 histVars, joinVars
<1>. DEFINE m == held[w]
            q == CQueue[w][1]
<1>1. /\ m \in Msgs /\ verdict[w] = "none"
      /\ QName(q) \in declared /\ QName(q) \in PQ
      /\ UNCHANGED <<brokerVars, declared, enqVars, consuming, held, status, purged>>
  BY DEF Process, DInv, IInv, TypeData, DConj, ConsumerQueueDeclared, QName, PQ, Kinds
<1>2. CASE CQueue[w][2] = "DQ"
  <2>1. /\ ready' = Publish(ready, QName(q), m, declared)
        /\ verdict' = [verdict EXCEPT ![w] = "ack"]
        /\ UNCHANGED executed
    BY <1>2 DEF Process
  <2>2. /\ \A p \in PQ, n \in Msgs : ready'[p][n] >= ready[p][n]
        /\ ready'[QName(q)][m] >= 1
        /\ ready' \in [PQ -> [Msgs -> Nat]]
    BY <1>1, <2>1, PublishGrows, PublishType DEF DInv, IInv, TypeData
  <2>3. OwedOrSettled'
    <3>. SUFFICES ASSUME NEW n \in Msgs, status'[n] = "enqueued",
                         MsgQueue[n] \notin LateQueues
                  PROVE  (Owed(n) \/ Settled(n))'
      BY DEF OwedOrSettled
    <3>1. CASE n = m
      BY <1>1, <2>2, <3>1 DEF Owed
    <3>2. CASE n # m
      BY <1>1, <2>1, <2>2, <3>2, KeepWitness
         DEF DInv, IInv, TypeData, DConj, OwedOrSettled
    <3>. QED  BY <3>1, <3>2
  <2>4. MainVerdictRan' /\ DelayVerdictAck'
    BY <1>1, <1>2, <2>1 DEF DInv, IInv, TypeData, DConj, MainVerdictRan, DelayVerdictAck
  <2>. QED  BY <1>1, <2>3, <2>4
            DEF DConj, DInv, TopologyDeclared, ConsumerQueueDeclared, SendingHeld,
                SendingDistinct
<1>3. CASE CQueue[w][2] # "DQ"
  <2>0. /\ executed' = [executed EXCEPT ![m] = @ + 1]
        /\ \E v \in {"ack", "nack"} : verdict' = [verdict EXCEPT ![w] = v]
        /\ UNCHANGED ready
    BY <1>3 DEF Process
  <2>1. /\ executed' = [executed EXCEPT ![m] = @ + 1]
        /\ verdict'[w] \in {"ack", "nack"}
        /\ \A v \in Consumers \ {w} : verdict'[v] = verdict[v]
        /\ verdict' \in [Consumers -> {"none", "ack", "nack"}]
        /\ UNCHANGED ready
    <3>1. PICK v \in {"ack", "nack"} : verdict' = [verdict EXCEPT ![w] = v]
      BY <2>0
    <3>. QED  BY <2>0, <3>1 DEF DInv, IInv, TypeData
  <2>2. /\ executed'[m] > 0
        /\ \A n \in Msgs : executed'[n] >= executed[n]
        /\ \A n \in Msgs \ {m} : executed'[n] = executed[n]
    BY <1>1, <2>1 DEF DInv, IInv, TypeData
  <2>3. OwedOrSettled'
    <3>. SUFFICES ASSUME NEW n \in Msgs, status'[n] = "enqueued",
                         MsgQueue[n] \notin LateQueues
                  PROVE  (Owed(n) \/ Settled(n))'
      BY DEF OwedOrSettled
    <3>1. CASE n = m
      BY <2>2, <3>1 DEF Settled
    <3>2. CASE n # m
      BY <1>1, <2>1, <2>2, <3>2, KeepWitness
         DEF DInv, IInv, TypeData, DConj, OwedOrSettled
    <3>. QED  BY <3>1, <3>2
  <2>4. MainVerdictRan'
    BY <1>1, <2>1, <2>2 DEF DInv, IInv, TypeData, DConj, MainVerdictRan
  <2>5. DelayVerdictAck'
    BY <1>1, <1>3, <2>1 DEF DInv, DConj, DelayVerdictAck
  <2>. QED  BY <1>1, <2>3, <2>4, <2>5
            DEF DConj, DInv, TopologyDeclared, ConsumerQueueDeclared, SendingHeld,
                SendingDistinct
<1>. QED  BY <1>2, <1>3

\* ack / nack of a delivery: a main-queue delivery has run, a delay-queue
\* one has its copy on the main queue, so the message stays settled or owed.
LEMMA SettleDConj ==
    ASSUME DInv, NEW w \in Consumers, Settle(w)
    PROVE  DConj'
<1>. USE ConstantsAssumption DEF brokerVars, serverVars, enqVars, consVars,
                                 histVars, joinVars
<1>. DEFINE m == held[w]
<1>1. /\ m \in Msgs /\ verdict[w] # "none"
      /\ held' = [held EXCEPT ![w] = NoMsg]
      /\ verdict' = [verdict EXCEPT ![w] = "none"]
      /\ UNCHANGED <<brokerVars, declared, enqVars, consuming, histVars>>
  BY DEF Settle, DInv, IInv, MsgsOK
<1>2. /\ \A p \in PQ, n \in Msgs : ready'[p][n] >= ready[p][n]
      /\ ready' \in [PQ -> [Msgs -> Nat]]
  <2>1. XQName(CQueue[w][1]) \in PQ
    BY DEF XQName, PQ, Kinds
  <2>2. CASE consuming[w] /\ verdict[w] = "nack"
    <3>1. ready' = Publish(ready, XQName(CQueue[w][1]), m, declared)
      BY <2>2 DEF Settle
    <3>. QED  BY <1>1, <2>1, <3>1, PublishGrows, PublishType DEF DInv, IInv, TypeData
  <2>3. CASE ~(consuming[w] /\ verdict[w] = "nack")
    <3>1. ready' = ready
      BY <2>3 DEF Settle
    <3>. QED  BY <3>1 DEF DInv, IInv, TypeData
  <2>. QED  BY <2>2, <2>3
<1>3. OwedOrSettled'
  <2>. SUFFICES ASSUME NEW n \in Msgs, status'[n] = "enqueued",
                       MsgQueue[n] \notin LateQueues
                PROVE  (Owed(n) \/ Settled(n))'
    BY DEF OwedOrSettled
  <2>1. Owed(n) \/ Settled(n)
    BY <1>1 DEF DInv, DConj, OwedOrSettled
  <2>2. CASE n = m /\ CQueue[w][2] = "Q"
    <3>1. executed[m] > 0
      BY <1>1, <2>2 DEF DInv, DConj, MainVerdictRan
    <3>. QED  BY <1>1, <2>2, <3>1 DEF Settled
  <2>3. CASE ~(n = m /\ CQueue[w][2] = "Q")
    <3>1. CQueue[w][2] \in Kinds
      BY DEF Kinds
    <3>2. n = m => CQueue[w][2] = "DQ" /\ verdict[w] = "ack"
      BY <1>1, <2>3, <3>1 DEF DInv, DConj, DelayVerdictAck, Kinds
    <3>3. \A v \in Consumers :
             held[v] = n /\ consuming[v] /\ ~(CQueue[v][2] = "DQ" /\ verdict[v] = "ack")
                => held'[v] = n /\ consuming'[v] /\ verdict'[v] = verdict[v]
      BY <1>1, <3>2 DEF DInv, IInv, TypeData
    <3>. QED  BY <1>1, <1>2, <2>1, <3>3, KeepWitness DEF DInv, IInv, TypeData
  <2>. QED  BY <2>2, <2>3
<1>4. ConsumerQueueDeclared' /\ MainVerdictRan' /\ DelayVerdictAck'
  BY <1>1 DEF DInv, IInv, TypeData, DConj, ConsumerQueueDeclared, MainVerdictRan,
              DelayVerdictAck
<1>. QED  BY <1>1, <1>3, <1>4
          DEF DConj, DInv, TopologyDeclared, SendingHeld, SendingDistinct

\* flush(q): a copy it removes belongs to a message it marks purged.
LEMMA FlushDConj ==
    ASSUME DInv, NEW q \in Queues, Flush(q)
    PROVE  DConj'
<1>. USE ConstantsAssumption DEF brokerVars, serverVars, enqVars, consVars,
                                 histVars, joinVars
<1>1. UNCHANGED <<queues, queuesDeclared, declared, pc, emsg, attempts, err,
                  consVars, status, executed>>
  BY DEF Flush
<1>2. OwedOrSettled'
  <2>. SUFFICES ASSUME NEW n \in Msgs, status'[n] = "enqueued",
                       MsgQueue[n] \notin LateQueues
                PROVE  (Owed(n) \/ Settled(n))'
    BY DEF OwedOrSettled
  <2>1. Owed(n) \/ Settled(n)
    BY <1>1 DEF DInv, DConj, OwedOrSettled
  <2>2. CASE QName(q) \in declared
    <3>1. /\ purged' = purged \cup
                 {k \in Msgs : \E kd \in Kinds : ready[<<q, kd>>][k] > 0}
          /\ ready' = [pq \in PQ |->
                         IF pq[1] = q THEN [k \in Msgs |-> 0] ELSE ready[pq]]
      BY <2>2 DEF Flush
    <3>2. CASE \E pq \in PQ : pq[1] = q /\ ready[pq][n] > 0
      <4>1. PICK pq \in PQ : pq[1] = q /\ ready[pq][n] > 0
        BY <3>2
      <4>2. pq = <<q, pq[2]>> /\ pq[2] \in Kinds
        BY <4>1 DEF PQ
      <4>3. \E kd \in Kinds : ready[<<q, kd>>][n] > 0
        BY <4>1, <4>2
      <4>4. n \in purged'
        BY <3>1, <4>3
      <4>. QED  BY <4>4 DEF Settled
    <3>3. CASE ~\E pq \in PQ : pq[1] = q /\ ready[pq][n] > 0
      <4>1. \A pq \in PQ : ready'[pq][n] = ready[pq][n]
        BY <3>1, <3>3 DEF DInv, IInv, TypeData
      <4>2. XQName(MsgQueue[n]) \in PQ
        BY DEF XQName, PQ, Kinds
      <4>3. purged \subseteq purged'
        BY <3>1
      <4>. QED  BY <1>1, <2>1, <4>1, <4>2, <4>3 DEF Owed, Settled
    <3>. QED  BY <3>2, <3>3
  <2>3. CASE QName(q) \notin declared
    <3>1. UNCHANGED <<ready, purged>>
      BY <2>3 DEF Flush
    <3>. QED  BY <1>1, <2>1, <3>1 DEF Owed, Settled
  <2>. QED  BY <2>2, <2>3
<1>. QED  BY <1>1, <1>2
          DEF DConj, DInv, TopologyDeclared, ConsumerQueueDeclared, MainVerdictRan,
              DelayVerdictAck, SendingHeld, SendingDistinct

-----------------------------------------------------------------------------
(* The invariant is inductive.                                             *)

LEMMA NextDInv ==
    ASSUME ConfirmDelivery
    PROVE  DInv /\ [Next]_vars => DInv'
<1>. SUFFICES ASSUME DInv, [Next]_vars PROVE DInv'
  OBVIOUS
<1>. USE ConstantsAssumption DEF brokerVars, serverVars, enqVars, consVars,
                                 histVars, joinVars
<1>1. IInv'
  BY NextIInv DEF DInv
<1>2. DConj'
  <2>1. ASSUME NEW q \in Queues, DeclareQueue(q) PROVE DConj'
    <3>1. /\ queues' \ LateQueues = queues \ LateQueues
          /\ queues \subseteq queues'
          /\ UNCHANGED <<queuesDeclared, connUp, chanOpen, serverVars, enqVars,
                         consVars, histVars, joinVars>>
      BY <2>1 DEF DeclareQueue
    <3>2. OwedOrSettled' /\ TopologyDeclared'
      BY <3>1 DEF DInv, DConj, OwedOrSettled, TopologyDeclared, Owed, Settled, InBroker
    <3>3. SendingHeld'
      BY <3>1 DEF DInv, DConj, SendingHeld, DeclareQueue
    <3>. QED  BY <3>1, <3>2, <3>3
              DEF DInv, DConj, ConsumerQueueDeclared, MainVerdictRan,
                  DelayVerdictAck, SendingDistinct
  <2>2. ASSUME NEW t \in Threads, NEW m \in Msgs, Send(t, m) PROVE DConj'
    BY <2>2, SendDConj
  <2>3. ASSUME NEW t \in Threads, Try(t) PROVE DConj'
    BY <2>3, TryDConj
  <2>4. ASSUME NEW t \in Threads, Except(t) PROVE DConj'
    BY <2>4, ExceptDConj
  <2>5. CASE Close
    BY <2>5, CloseConnectionDConj DEF Close
  <2>6. ASSUME NEW w \in Consumers, Consume(w) PROVE DConj'
    BY <2>6, ConsumeDConj
  <2>7. ASSUME NEW w \in Consumers, Fetch(w) PROVE DConj'
    BY <2>7, FetchDConj
  <2>8. ASSUME NEW w \in Consumers, Process(w) PROVE DConj'
    BY <2>8, ProcessDConj
  <2>9. ASSUME NEW w \in Consumers, Settle(w) PROVE DConj'
    BY <2>9, SettleDConj
  <2>10. ASSUME NEW q \in Queues, Flush(q) PROVE DConj'
    BY <2>10, FlushDConj
  <2>11. CASE JoinPoll
    <3>1. /\ declared \subseteq declared'
          /\ UNCHANGED <<queues, queuesDeclared, ready, pc, emsg, attempts, err,
                         consVars, histVars>>
      BY <2>11 DEF JoinPoll
    <3>2. OwedOrSettled'
      BY <3>1 DEF DInv, DConj, OwedOrSettled, Owed, Settled
    <3>. QED  BY <3>1, <3>2
              DEF DInv, DConj, TopologyDeclared, ConsumerQueueDeclared,
                  MainVerdictRan, DelayVerdictAck, SendingHeld, SendingDistinct
  <2>12. CASE JoinTimeout \/ Restart \/ UNCHANGED vars
    <3>1. UNCHANGED <<queues, queuesDeclared, declared, ready, pc, emsg, attempts,
                      consVars, histVars>>
      BY <2>12 DEF JoinTimeout, Restart, vars
    <3>2. OwedOrSettled'
      BY <3>1 DEF DInv, DConj, OwedOrSettled, Owed, Settled
    <3>. QED  BY <3>1, <3>2
              DEF DInv, DConj, TopologyDeclared, ConsumerQueueDeclared,
                  MainVerdictRan, DelayVerdictAck, SendingHeld, SendingDistinct
  <2>13. CASE Crash
    BY <2>13, CloseConnectionDConj DEF Crash
  <2>. QED  BY <2>1, <2>2, <2>3, <2>4, <2>5, <2>6, <2>7, <2>8, <2>9, <2>10,
               <2>11, <2>12, <2>13 DEF Next
<1>. QED  BY <1>1, <1>2 DEF DInv

\* When every actor is declared at start-up and publishes are confirmed,
\* DeliveryInv holds in every reachable state: whatever interleaving of
\* enqueue retries, connection recovery, consumer deliveries, flushes,
\* joins and server restarts.
THEOREM DeliveryInvariant ==
    ASSUME ConfirmDelivery
    PROVE  Spec => []DeliveryInv
<1>1. DInv => DeliveryInv
  BY DeliveryInvSplit DEF DInv
<1>2. DInv /\ [Next]_vars => DInv'
  BY NextDInv
<1>. QED  BY <1>1, <1>2, InitDInv, PTL DEF Spec

\* A message whose enqueue returned (the publish was confirmed) is never
\* lost while the broker reconnects, retries, requeues and restarts, when
\* every actor is declared at start-up and publishes are confirmed.
THEOREM EnqueuedNeverLost ==
    ASSUME LateQueues = {}, ConfirmDelivery
    PROVE  Spec => []EnqueuedNotLost
<1>1. DInv => EnqueuedNotLost
  BY DEF DInv, DConj, OwedOrSettled, Owed, EnqueuedNotLost, InBroker
<1>2. DInv /\ [Next]_vars => DInv'
  BY NextDInv
<1>. QED  BY <1>1, <1>2, InitDInv, PTL DEF Spec

\* With confirms, a message of an actor declared at start-up whose enqueue
\* returned is never lost, however declare_queue calls for late actors
\* interleave with enqueue's one-time declaration, the consumers, the
\* retries, the requeues and the restarts.
THEOREM StartupEnqueuedNeverLost ==
    ASSUME ConfirmDelivery
    PROVE  Spec => []StartupEnqueuedNotLost
<1>1. DInv => StartupEnqueuedNotLost
  BY DEF DInv, DConj, OwedOrSettled, Owed, StartupEnqueuedNotLost, InBroker
<1>2. DInv /\ [Next]_vars => DInv'
  BY NextDInv
<1>. QED  BY <1>1, <1>2, InitDInv, PTL DEF Spec
-----------------------------------------------------------------------------
(* The delay queue's consumer moves a message on without losing it, with   *)
(* or without confirms and late actors.                                    *)

CInv == IInv /\ ConsumerQueueDeclared

\* No step removes a queue from the server: a restart keeps the durable
\* queues, and only enqueue, consume and join declare.
LEMMA DeclaredGrows ==
    ASSUME [Next]_vars
    PROVE  declared \subseteq declared'
<1>1. ASSUME NEW t \in Threads, Try(t) PROVE declared \subseteq declared'
  BY <1>1 DEF Try, TryServerDown, TryPublished, TryChannelError,
              TryConnectionLost, DeclaredByEnqueue, serverVars
<1>2. ASSUME NEW w \in Consumers, Consume(w) PROVE declared \subseteq declared'
  BY <1>2 DEF Consume
<1>3. CASE JoinPoll
  BY <1>3 DEF JoinPoll
<1>4. CASE \/ \E q \in Queues : DeclareQueue(q) \/ Flush(q)
           \/ \E t \in Threads, m \in Msgs : Send(t, m)
           \/ JoinTimeout \/ UNCHANGED vars
  BY <1>4 DEF DeclareQueue, Flush, Send, JoinTimeout, vars, serverVars
<1>5. ASSUME NEW t \in Threads, Except(t) PROVE declared \subseteq declared'
  BY <1>5 DEF Except
<1>6. ASSUME NEW w \in Consumers, Fetch(w) \/ Process(w) \/ Settle(w)
      PROVE  declared \subseteq declared'
  BY <1>6 DEF Fetch, Process, Settle
<1>7. CASE Close \/ Crash \/ Restart
  BY <1>7 DEF Close, Crash, Restart
<1>. QED  BY <1>1, <1>2, <1>3, <1>4, <1>5, <1>6, <1>7 DEF Next

\* Only consume(w) makes a consumer start consuming or holding a message:
\* a delivery goes to a consuming channel, and every other step closes
\* consumers, settles deliveries, or leaves them alone.
LEMMA ConsumerStarts ==
    ASSUME IInv, [Next]_vars, NEW w \in Consumers,
           consuming'[w] \/ held'[w] # NoMsg, ~consuming[w], held[w] = NoMsg
    PROVE  Consume(w)
<1>. USE DEF IInv, TypeBool, TypeData
<1>1. ASSUME NEW t \in Threads, Try(t) PROVE FALSE
  BY <1>1 DEF Try, TryServerDown, TryPublished, TryChannelError,
              TryConnectionLost, CloseChannels, consVars
<1>2. ASSUME NEW t \in Threads, Except(t) PROVE FALSE
  BY <1>2 DEF Except, CloseConnection, CloseChannels
<1>3. CASE Close \/ Crash
  BY <1>3 DEF Close, Crash, CloseConnection, CloseChannels
<1>4. ASSUME NEW v \in Consumers, Consume(v), v # w PROVE FALSE
  BY <1>4 DEF Consume
<1>5. ASSUME NEW v \in Consumers, Fetch(v) PROVE FALSE
  BY <1>5 DEF Fetch
<1>6. ASSUME NEW v \in Consumers, Process(v) \/ Settle(v) PROVE FALSE
  BY <1>6 DEF Process, Settle
<1>7. CASE \/ \E q \in Queues : DeclareQueue(q) \/ Flush(q)
           \/ \E t \in Threads, m \in Msgs : Send(t, m)
           \/ JoinPoll \/ JoinTimeout \/ Restart \/ UNCHANGED vars
  BY <1>7 DEF DeclareQueue, Flush, Send, JoinPoll, JoinTimeout, Restart, vars,
              consVars
<1>. QED  BY <1>1, <1>2, <1>3, <1>4, <1>5, <1>6, <1>7 DEF Next

LEMMA InitCInv == Init => CInv
BY InitIInv DEF Init, CInv, ConsumerQueueDeclared

LEMMA NextCInv == CInv /\ [Next]_vars => CInv'
<1>. SUFFICES ASSUME CInv, [Next]_vars PROVE CInv'
  OBVIOUS
<1>1. IInv'
  BY NextIInv DEF CInv
<1>2. ASSUME NEW w \in Consumers, consuming'[w] \/ held'[w] # NoMsg
      PROVE  QName(CQueue[w][1]) \in declared'
  <2>1. CASE consuming[w] \/ held[w] # NoMsg
    BY <2>1, DeclaredGrows DEF CInv, ConsumerQueueDeclared
  <2>2. CASE ~consuming[w] /\ held[w] = NoMsg
    <3>1. Consume(w)
      BY <1>2, <2>2, ConsumerStarts DEF CInv
    <3>. QED  BY <3>1 DEF Consume, DeclareRabbitmqQueues, QName, Kinds
  <2>. QED  BY <2>1, <2>2
<1>. QED  BY <1>1, <1>2 DEF CInv, ConsumerQueueDeclared

\* When the worker acks a delayed message on the delay queue, a copy of it
\* has just been added to its main queue: consume declared that queue, and
\* no server restart or connection loss undeclares it.
THEOREM DelayedMoveSafe == Spec => DelayedMoveKeepsMessage
<1>1. ASSUME CInv, [Next]_vars, NEW w \in Consumers,
             CQueue[w][2] = "DQ", verdict[w] = "none", verdict'[w] = "ack"
      PROVE  ready'[QName(CQueue[w][1])][held[w]]
               = ready[QName(CQueue[w][1])][held[w]] + 1
  <2>. USE DEF CInv, IInv, TypeData
  <2>1. Process(w)
    <3>1. ASSUME NEW v \in Consumers, Process(v), v # w PROVE FALSE
      BY <1>1, <3>1 DEF Process
    <3>2. ASSUME NEW v \in Consumers, Settle(v) PROVE FALSE
      BY <1>1, <3>2 DEF Settle
    <3>. QED  BY <1>1, <3>1, <3>2
              DEF Next, vars, consVars, DeclareQueue, Send, Try, TryServerDown,
                  TryPublished, TryChannelError, TryConnectionLost, Except,
                  Close, Consume, Fetch, Flush, JoinPoll, JoinTimeout, Crash,
                  Restart
  <2>2. /\ held[w] \in Msgs
        /\ QName(CQueue[w][1]) \in declared
        /\ ready' = Publish(ready, QName(CQueue[w][1]), held[w], declared)
    BY <1>1, <2>1 DEF Process, ConsumerQueueDeclared
  <2>3. QName(CQueue[w][1]) \in PQ
    BY ConstantsAssumption DEF QName, PQ, Kinds
  <2>. QED  BY <1>1, <2>2, <2>3 DEF Publish
<1>2. CInv /\ [Next]_vars
        => [\A w \in Consumers :
              CQueue[w][2] = "DQ" /\ verdict[w] = "none" /\ verdict'[w] = "ack"
                 => ready'[QName(CQueue[w][1])][held[w]]
                      = ready[QName(CQueue[w][1])][held[w]] + 1]_vars
  BY <1>1
<1>. QED  BY <1>2, InitCInv, NextCInv, PTL DEF Spec, DelayedMoveKeepsMessage
=============================================================================
