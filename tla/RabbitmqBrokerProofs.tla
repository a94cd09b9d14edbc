------------------------ MODULE RabbitmqBrokerProofs ------------------------
(***************************************************************************)
(* Proofs about the RabbitMQ broker adapter, for every value of the        *)
(* constants that satisfies ConstantsAssumption.                           *)
(***************************************************************************)
EXTENDS RabbitmqBroker, FiniteSetTheorems, TLAPS

\* The two halves of TypeOK: the flags, and the rest.  They are proved in
\* separate steps, one backend handling each best.
TypeBool ==
    /\ queuesDeclared \in BOOLEAN
    /\ connUp \in BOOLEAN
    /\ up \in BOOLEAN
    /\ chanOpen \in [Actors -> BOOLEAN]
    /\ stale \in [Threads -> BOOLEAN]
    /\ consuming \in [Consumers -> BOOLEAN]

TypeData ==
    /\ queues \subseteq Queues
    /\ declared \subseteq PQ
    /\ ready \in [PQ -> [Msgs -> Nat]]
    /\ faults \in 0..MaxFaults
    /\ pc \in [Threads -> {"idle", "try", "except"}]
    /\ emsg \in [Threads -> Msgs \cup {NoMsg}]
    /\ attempts \in [Threads -> 0..MaxEnqueueAttempts]
    /\ err \in [Threads -> {"none", "conn", "chan"}]
    /\ held \in [Consumers -> Msgs \cup {NoMsg}]
    /\ verdict \in [Consumers -> {"none", "ack", "nack"}]
    /\ status \in [Msgs -> {"unsent", "sending", "enqueued", "raised", "rejected"}]
    /\ executed \in [Msgs -> Nat]
    /\ purged \subseteq Msgs
    /\ joinSt \in {"idle", "polling", "returned", "timeout", "error"}
    /\ joinSucc \in Nat

\* TypeOK is not inductive on its own: Try publishes emsg[t] and Except
\* marks it raised, Settle dead-letters held[w], so both must be messages
\* whenever those actions are enabled.
MsgsOK ==
    /\ \A t \in Threads : pc[t] # "idle" => emsg[t] \in Msgs
    /\ \A w \in Consumers : verdict[w] # "none" => held[w] \in Msgs

IInv == TypeBool /\ TypeData /\ MsgsOK

-----------------------------------------------------------------------------
(* Lemmas about the operators the model is built from.                     *)

\* TypeOK is the conjunction of its two halves.
LEMMA TypeSplit == TypeOK <=> TypeBool /\ TypeData
BY Zenon DEF TypeOK, TypeBool, TypeData

\* The server's requeue of the unacknowledged deliveries keeps every count
\* a natural number: a set of consumers is finite.
LEMMA RequeuedType ==
    ASSUME TypeData
    PROVE  Requeued \in [PQ -> [Msgs -> Nat]]
<1>1. \A pq \in PQ, m \in Msgs :
         Cardinality({w \in Consumers :
                        consuming[w] /\ held[w] = m /\ CQueue[w] = pq}) \in Nat
  <2>1. IsFiniteSet(Consumers)
    BY ConstantsAssumption
  <2>. QED  BY <2>1, FS_Subset, FS_CardinalityType
<1>. QED  BY <1>1 DEF TypeData, Requeued

\* A publish adds at most one copy to one ready queue.
LEMMA PublishType ==
    ASSUME NEW r \in [PQ -> [Msgs -> Nat]], NEW pq, NEW m \in Msgs,
           NEW decl \in SUBSET PQ
    PROVE  Publish(r, pq, m, decl) \in [PQ -> [Msgs -> Nat]]
BY DEF Publish

\* The routing key of enqueue names a physical queue of the topology.
LEMMA TargetType ==
    ASSUME NEW m \in Msgs
    PROVE  Target(m) \in PQ
BY ConstantsAssumption DEF Target, QName, DQName, PQ, Kinds

\* Opening a connection only sets stale flags.
LEMMA StaleAfterOpenType ==
    ASSUME TypeBool
    PROVE  StaleAfterOpen \in [Threads -> BOOLEAN]
BY DEF TypeBool, StaleAfterOpen

\* The declarations stay within the topology.
LEMMA DeclareType ==
    ASSUME NEW qs \in SUBSET Queues
    PROVE  DeclareRabbitmqQueues(qs) \subseteq PQ
BY DEF DeclareRabbitmqQueues, PQ

-----------------------------------------------------------------------------

\* The initial state (a cold start) satisfies the inductive invariant.
LEMMA InitIInv == Init => IInv
<1>. SUFFICES ASSUME Init PROVE IInv
  OBVIOUS
<1>1. TypeBool
  BY DEF Init, TypeBool
<1>2. TypeData
  BY ConstantsAssumption DEF Init, TypeData
<1>3. MsgsOK
  BY DEF Init, MsgsOK
<1>. QED  BY <1>1, <1>2, <1>3 DEF IInv

\* The steps of enqueue's try block keep the inductive invariant.
LEMMA TryIInv ==
    ASSUME TypeBool, TypeData, MsgsOK, NEW t \in Threads, Try(t)
    PROVE  TypeBool' /\ TypeData' /\ MsgsOK'
<1>. USE ConstantsAssumption DEF brokerVars, serverVars, enqVars, consVars,
                                 histVars, joinVars, Actors
<1>. DEFINE m == emsg[t]
<1>1. /\ m \in Msgs /\ Target(m) \in PQ /\ DeclaredByEnqueue \subseteq PQ
      /\ StaleAfterOpen \in [Threads -> BOOLEAN]
      /\ Requeued \in [PQ -> [Msgs -> Nat]]
  BY TargetType, DeclareType, StaleAfterOpenType, RequeuedType
  DEF Try, MsgsOK, TypeData, DeclaredByEnqueue
<1>2. /\ Publish(ready, Target(m), m, DeclaredByEnqueue) \in [PQ -> [Msgs -> Nat]]
      /\ Publish(Requeued, Target(m), m, DeclaredByEnqueue) \in [PQ -> [Msgs -> Nat]]
  BY <1>1, PublishType DEF TypeData
<1>3. CASE TryServerDown(t)
  <2>1. TypeBool'
    BY <1>3 DEF TryServerDown, Fail, TypeBool
  <2>2. TypeData' /\ MsgsOK'
    BY <1>3 DEF Try, TryServerDown, Fail, TypeData, MsgsOK
  <2>. QED  BY <2>1, <2>2
<1>4. CASE TryPublished(t)
  <2>1. TypeBool'
    BY <1>1, <1>4 DEF TryPublished, GetChannel, GetConnection, TypeBool
  <2>2. /\ declared' = DeclaredByEnqueue
        /\ ready' = Publish(ready, Target(m), m, DeclaredByEnqueue)
        /\ pc' = [pc EXCEPT ![t] = "idle"]
        /\ status' = [status EXCEPT ![m] = "enqueued"]
        /\ UNCHANGED <<queues, faults, emsg, attempts, err, held, verdict,
                       executed, purged, joinVars>>
    BY <1>3, <1>4 DEF Try, TryPublished, GetChannel
  <2>3. TypeData' /\ MsgsOK'
    BY <1>1, <1>2, <2>2 DEF TypeData, MsgsOK
  <2>. QED  BY <2>1, <2>3
<1>5. CASE TryChannelError(t)
  <2>1. TypeBool'
    BY <1>1, <1>5 DEF TryChannelError, GetChannel, GetConnection, Fail, TypeBool
  <2>2. TypeData' /\ MsgsOK'
    BY <1>5 DEF Try, TryChannelError, GetChannel, GetConnection, Fail, TypeData, MsgsOK
  <2>. QED  BY <2>1, <2>2
<1>6. CASE TryConnectionLost(t)
  <2>1. TypeBool'
    BY <1>1, <1>6 DEF TryConnectionLost, CloseChannels, TypeBool
  <2>2. /\ faults' = faults + 1 /\ faults < MaxFaults
        /\ declared' = DeclaredByEnqueue
        /\ UNCHANGED <<queues, held, verdict, executed, purged, joinVars>>
    BY <1>6 DEF Try, TryConnectionLost
  <2>3. \/ /\ ready' = Publish(Requeued, Target(m), m, DeclaredByEnqueue)
           /\ pc' = [pc EXCEPT ![t] = "except"]
           /\ err' = [err EXCEPT ![t] = "conn"]
           /\ UNCHANGED <<emsg, attempts, status>>
        \/ /\ ready' = Requeued
           /\ pc' = [pc EXCEPT ![t] = "except"]
           /\ err' = [err EXCEPT ![t] = "conn"]
           /\ UNCHANGED <<emsg, attempts, status>>
        \/ /\ ready' = Requeued
           /\ pc' = [pc EXCEPT ![t] = "idle"]
           /\ status' = [status EXCEPT ![m] = "enqueued"]
           /\ UNCHANGED <<emsg, attempts, err>>
    BY <1>6 DEF TryConnectionLost, Fail
  <2>4. CASE /\ ready' = Publish(Requeued, Target(m), m, DeclaredByEnqueue)
             /\ pc' = [pc EXCEPT ![t] = "except"]
             /\ err' = [err EXCEPT ![t] = "conn"]
             /\ UNCHANGED <<emsg, attempts, status>>
    BY <1>1, <1>2, <2>1, <2>2, <2>4 DEF TypeData, MsgsOK
  <2>5. CASE /\ ready' = Requeued
             /\ pc' = [pc EXCEPT ![t] = "except"]
             /\ err' = [err EXCEPT ![t] = "conn"]
             /\ UNCHANGED <<emsg, attempts, status>>
    BY <1>1, <2>1, <2>2, <2>5 DEF TypeData, MsgsOK
  <2>6. CASE /\ ready' = Requeued
             /\ pc' = [pc EXCEPT ![t] = "idle"]
             /\ status' = [status EXCEPT ![m] = "enqueued"]
             /\ UNCHANGED <<emsg, attempts, err>>
    BY <1>1, <2>1, <2>2, <2>6 DEF TypeData, MsgsOK
  <2>. QED  BY <2>3, <2>4, <2>5, <2>6
<1>. QED  BY <1>3, <1>4, <1>5, <1>6 DEF Try

\* The except block of enqueue keeps the inductive invariant, whether it
\* closes the connection or the channel, and whether it retries or raises.
LEMMA ExceptIInv ==
    ASSUME TypeBool, TypeData, MsgsOK, NEW t \in Threads, Except(t)
    PROVE  TypeBool' /\ TypeData' /\ MsgsOK'
<1>. USE ConstantsAssumption DEF brokerVars, serverVars, enqVars, consVars,
                                 histVars, joinVars, Actors
<1>0. UNCHANGED <<queuesDeclared, up, stale>>
  BY DEF Except
<1>1. TypeBool'
  <2>1. CASE err[t] = "conn" /\ connUp
    <3>1. /\ connUp' = FALSE
          /\ chanOpen' = [a \in Actors |-> FALSE]
          /\ consuming' = [w \in Consumers |-> FALSE]
      BY <2>1 DEF Except, CloseConnection, CloseChannels
    <3>. QED  BY <1>0, <3>1 DEF TypeBool
  <2>2. CASE ~(err[t] = "conn" /\ connUp)
    <3>1. /\ chanOpen' = [chanOpen EXCEPT ![t] = FALSE]
          /\ UNCHANGED <<connUp, consuming>>
      BY <2>2 DEF Except
    <3>. QED  BY <1>0, <3>1 DEF TypeBool
  <2>. QED  BY <2>1, <2>2
<1>2. ready' \in [PQ -> [Msgs -> Nat]]
  <2>1. CASE err[t] = "conn" /\ connUp
    BY <2>1, RequeuedType DEF Except, CloseConnection
  <2>2. CASE ~(err[t] = "conn" /\ connUp)
    BY <2>2 DEF Except, TypeData
  <2>. QED  BY <2>1, <2>2
<1>3. /\ err' = [err EXCEPT ![t] = "none"]
      /\ UNCHANGED <<queues, declared, faults, emsg, held, verdict, executed,
                     purged, joinVars>>
  BY DEF Except
<1>4. TypeData' /\ MsgsOK'
  <2>1. emsg[t] \in Msgs
    BY DEF Except, MsgsOK
  <2>2. CASE OutOfAttempts(t)
    <3>1. /\ pc' = [pc EXCEPT ![t] = "idle"]
          /\ attempts' = [attempts EXCEPT ![t] = 0]
          /\ status' = [status EXCEPT ![emsg[t]] = "raised"]
      BY <2>2 DEF Except
    <3>. QED  BY <1>2, <1>3, <2>1, <3>1 DEF TypeData, MsgsOK
  <2>3. CASE ~OutOfAttempts(t)
    <3>1. /\ pc' = [pc EXCEPT ![t] = "try"]
          /\ attempts' = [attempts EXCEPT ![t] = @ + 1]
          /\ attempts[t] + 1 <= MaxEnqueueAttempts
          /\ UNCHANGED status
      BY <2>3 DEF Except, OutOfAttempts, TypeData
    <3>. QED  BY <1>2, <1>3, <2>1, <3>1 DEF TypeData, MsgsOK
  <2>. QED  BY <2>2, <2>3
<1>. QED  BY <1>1, <1>4

\* Every step of the adapter, its consumers, Admin and the server keeps
\* the inductive invariant.
LEMMA NextIInv == IInv /\ [Next]_vars => IInv'
<1>. SUFFICES ASSUME TypeBool, TypeData, MsgsOK, [Next]_vars
              PROVE  TypeBool' /\ TypeData' /\ MsgsOK'
  BY DEF IInv
<1>. USE ConstantsAssumption DEF brokerVars, serverVars, enqVars, consVars,
                                 histVars, joinVars, Actors
<1>1. ASSUME NEW q \in Queues, DeclareQueue(q)
      PROVE  TypeBool' /\ TypeData' /\ MsgsOK'
  BY <1>1 DEF DeclareQueue, TypeBool, TypeData, MsgsOK
<1>2. ASSUME NEW t \in Threads, NEW m \in Msgs, Send(t, m)
      PROVE  TypeBool' /\ TypeData' /\ MsgsOK'
  <2>1. TypeBool'
    BY <1>2 DEF Send, TypeBool
  <2>2. CASE m \in Orphans \/ MsgQueue[m] \notin queues
    <3>1. /\ status' = [status EXCEPT ![m] = "rejected"]
          /\ UNCHANGED <<brokerVars, serverVars, enqVars, consVars, executed,
                         purged, joinVars>>
      BY <1>2, <2>2 DEF Send
    <3>. QED  BY <2>1, <3>1 DEF TypeData, MsgsOK
  <2>3. CASE ~(m \in Orphans \/ MsgQueue[m] \notin queues)
    <3>1. /\ status' = [status EXCEPT ![m] = "sending"]
          /\ pc' = [pc EXCEPT ![t] = "try"]
          /\ emsg' = [emsg EXCEPT ![t] = m]
          /\ attempts' = [attempts EXCEPT ![t] = 1]
          /\ UNCHANGED <<brokerVars, serverVars, err, stale, consVars,
                         executed, purged, joinVars>>
      BY <1>2, <2>3 DEF Send
    <3>. QED  BY <2>1, <3>1 DEF TypeData, MsgsOK
  <2>. QED  BY <2>1, <2>2, <2>3
<1>3. ASSUME NEW t \in Threads, Try(t)
      PROVE  TypeBool' /\ TypeData' /\ MsgsOK'
  BY <1>3, TryIInv
<1>4. ASSUME NEW t \in Threads, Except(t)
      PROVE  TypeBool' /\ TypeData' /\ MsgsOK'
  BY <1>4, ExceptIInv
<1>5. CASE Close
  <2>1. TypeBool'
    BY <1>5 DEF Close, CloseConnection, CloseChannels, TypeBool
  <2>2. TypeData' /\ MsgsOK'
    BY <1>5, RequeuedType DEF Close, CloseConnection, TypeData, MsgsOK
  <2>. QED  BY <2>1, <2>2
<1>6. ASSUME NEW w \in Consumers, Consume(w)
      PROVE  TypeBool' /\ TypeData' /\ MsgsOK'
  <2>1. TypeBool'
    BY <1>6, StaleAfterOpenType DEF Consume, GetChannel, GetConnection, TypeBool
  <2>2. TypeData' /\ MsgsOK'
    BY <1>6, DeclareType DEF Consume, TypeData, MsgsOK
  <2>. QED  BY <2>1, <2>2
<1>7. ASSUME NEW w \in Consumers, Fetch(w)
      PROVE  TypeBool' /\ TypeData' /\ MsgsOK'
  <2>1. TypeBool'
    BY <1>7 DEF Fetch, TypeBool
  <2>2. PICK m \in Msgs : /\ ready[CQueue[w]][m] > 0
                         /\ ready' = [ready EXCEPT ![CQueue[w]][m] = @ - 1]
                         /\ held' = [held EXCEPT ![w] = m]
    BY <1>7 DEF Fetch
  <2>3. CQueue[w] \in PQ
    BY DEF PQ, Kinds
  <2>4. TypeData' /\ MsgsOK'
    BY <1>7, <2>2, <2>3 DEF Fetch, TypeData, MsgsOK
  <2>. QED  BY <2>1, <2>4
<1>8. ASSUME NEW w \in Consumers, Process(w)
      PROVE  TypeBool' /\ TypeData' /\ MsgsOK'
  <2>1. TypeBool'
    BY <1>8 DEF Process, TypeBool
  <2>2. held[w] \in Msgs /\ QName(CQueue[w][1]) \in PQ
    BY <1>8 DEF Process, QName, PQ, Kinds, TypeData
  <2>3. Publish(ready, QName(CQueue[w][1]), held[w], declared) \in [PQ -> [Msgs -> Nat]]
    BY <2>2, PublishType DEF TypeData
  <2>6. UNCHANGED <<brokerVars, up, declared, faults, enqVars, consuming, held,
                    status, purged, joinVars>>
    BY <1>8 DEF Process
  <2>4. CASE CQueue[w][2] = "DQ"
    <3>1. /\ ready' = Publish(ready, QName(CQueue[w][1]), held[w], declared)
          /\ verdict' = [verdict EXCEPT ![w] = "ack"]
          /\ UNCHANGED executed
      BY <1>8, <2>4 DEF Process
    <3>. QED  BY <2>1, <2>2, <2>3, <2>6, <3>1 DEF TypeData, MsgsOK
  <2>5. CASE CQueue[w][2] # "DQ"
    <3>1. /\ executed' = [executed EXCEPT ![held[w]] = @ + 1]
          /\ \E v \in {"ack", "nack"} : verdict' = [verdict EXCEPT ![w] = v]
          /\ UNCHANGED ready
      BY <1>8, <2>5 DEF Process
    <3>. QED  BY <2>1, <2>2, <2>6, <3>1 DEF TypeData, MsgsOK
  <2>. QED  BY <2>1, <2>4, <2>5
<1>9. ASSUME NEW w \in Consumers, Settle(w)
      PROVE  TypeBool' /\ TypeData' /\ MsgsOK'
  <2>1. TypeBool'
    BY <1>9 DEF Settle, TypeBool
  <2>2. held[w] \in Msgs /\ XQName(CQueue[w][1]) \in PQ
    BY <1>9 DEF Settle, XQName, PQ, Kinds, MsgsOK
  <2>3. Publish(ready, XQName(CQueue[w][1]), held[w], declared) \in [PQ -> [Msgs -> Nat]]
    BY <2>2, PublishType DEF TypeData
  <2>6. /\ held' = [held EXCEPT ![w] = NoMsg]
        /\ verdict' = [verdict EXCEPT ![w] = "none"]
        /\ UNCHANGED <<brokerVars, up, declared, faults, enqVars, consuming,
                       histVars, joinVars>>
    BY <1>9 DEF Settle
  <2>4. CASE consuming[w] /\ verdict[w] = "nack"
    <3>1. ready' = Publish(ready, XQName(CQueue[w][1]), held[w], declared)
      BY <1>9, <2>4 DEF Settle
    <3>. QED  BY <2>1, <2>3, <2>6, <3>1 DEF TypeData, MsgsOK
  <2>5. CASE ~(consuming[w] /\ verdict[w] = "nack")
    <3>1. UNCHANGED ready
      BY <1>9, <2>5 DEF Settle
    <3>. QED  BY <2>1, <2>6, <3>1 DEF TypeData, MsgsOK
  <2>. QED  BY <2>1, <2>4, <2>5
<1>10. ASSUME NEW q \in Queues, Flush(q)
       PROVE  TypeBool' /\ TypeData' /\ MsgsOK'
  <2>1. TypeBool'
    BY <1>10, StaleAfterOpenType DEF Flush, GetChannel, GetConnection, TypeBool
  <2>4. UNCHANGED <<queues, queuesDeclared, up, declared, faults, pc, emsg,
                    attempts, err, consVars, status, executed, joinVars>>
    BY <1>10 DEF Flush
  <2>2. CASE QName(q) \in declared
    <3>1. /\ purged' = purged \cup
                 {m \in Msgs : \E k \in Kinds : ready[<<q, k>>][m] > 0}
          /\ ready' = [pq \in PQ |->
                         IF pq[1] = q THEN [m \in Msgs |-> 0] ELSE ready[pq]]
      BY <1>10, <2>2 DEF Flush
    <3>. QED  BY <2>1, <2>4, <3>1 DEF TypeData, MsgsOK
  <2>3. CASE QName(q) \notin declared
    <3>1. UNCHANGED <<ready, purged>>
      BY <1>10, <2>3 DEF Flush
    <3>. QED  BY <2>1, <2>4, <3>1 DEF TypeData, MsgsOK
  <2>. QED  BY <2>1, <2>2, <2>3
<1>11. CASE JoinPoll
  <2>1. TypeBool'
    BY <1>11, StaleAfterOpenType DEF JoinPoll, GetChannel, GetConnection, TypeBool
  <2>2. TypeData' /\ MsgsOK'
    BY <1>11, DeclareType DEF JoinPoll, TypeData, MsgsOK
  <2>. QED  BY <2>1, <2>2
<1>12. CASE JoinTimeout
  BY <1>12 DEF JoinTimeout, TypeBool, TypeData, MsgsOK
<1>13. CASE Crash
  <2>1. TypeBool'
    BY <1>13 DEF Crash, CloseConnection, CloseChannels, TypeBool
  <2>2. TypeData' /\ MsgsOK'
    BY <1>13, RequeuedType DEF Crash, CloseConnection, TypeData, MsgsOK
  <2>. QED  BY <2>1, <2>2
<1>14. CASE Restart
  <2>1. TypeBool'
    BY <1>14 DEF Restart, TypeBool
  <2>2. TypeData' /\ MsgsOK'
    BY <1>14 DEF Restart, TypeData, MsgsOK
  <2>. QED  BY <2>1, <2>2
<1>15. CASE UNCHANGED vars
  BY <1>15 DEF vars, TypeBool, TypeData, MsgsOK
<1>. QED  BY <1>1, <1>2, <1>3, <1>4, <1>5, <1>6, <1>7, <1>8, <1>9, <1>10,
             <1>11, <1>12, <1>13, <1>14, <1>15 DEF Next

\* Type correctness: in every reachable state of the adapter, its consumers
\* and the server, every variable holds a value of its type (attempts never
\* exceeds MAX_ENQUEUE_ATTEMPTS, the ready counts stay natural numbers).
THEOREM TypeCorrect == Spec => []TypeOK
<1>1. IInv => TypeOK
  BY TypeSplit DEF IInv
<1>. QED  BY <1>1, InitIInv, NextIInv, PTL DEF Spec
=============================================================================
