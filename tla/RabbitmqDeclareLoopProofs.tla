---------------------- MODULE RabbitmqDeclareLoopProofs ----------------------
(* Proofs about the declaration loop, for every set of queues and callers. *)
EXTENDS RabbitmqDeclareLoop, FiniteSetTheorems, TLAPS

\* A caller inside the loop has only been given queues of self.queues, and
\* each of them is declared on the server.
LoopInv ==
    \A c \in Callers : pc[c] = "iter" => visited[c] \subseteq declared \cap queues

IInv == TypeOK /\ LoopInv

LEMMA InitIInv == Init => IInv
<1>. SUFFICES ASSUME Init PROVE IInv
  OBVIOUS
<1>1. TypeOK
  BY LoopAssumption DEF Init, TypeOK, CallerStates
<1>2. LoopInv
  BY DEF Init, LoopInv
<1>. QED  BY <1>1, <1>2 DEF IInv

LEMMA NextIInv == IInv /\ [Next]_vars => IInv'
<1>. SUFFICES ASSUME IInv, [Next]_vars PROVE IInv'
  OBVIOUS
<1>. USE LoopAssumption DEF IInv, TypeOK, LoopInv, CallerStates
<1>1. IsFiniteSet(queues)
  BY FS_Subset
<1>2. Cardinality(queues) \in Nat
  BY <1>1, FS_CardinalityType
<1>3. ASSUME NEW c \in Callers, Begin(c) PROVE IInv'
  BY <1>2, <1>3 DEF Begin
<1>4. ASSUME NEW c \in Callers, IterStep(c) PROVE IInv'
  <2>1. CASE Cardinality(queues) # itSize[c]
          /\ pc' = [pc EXCEPT ![c] = "runtime_error"]
          /\ UNCHANGED <<queuesDeclared, declared, visited, queues, itSize, lost>>
    BY <2>1
  <2>2. CASE /\ visited[c] = queues
             /\ \/ pc' = [pc EXCEPT ![c] = "setflag"]
                \/ pc' = [pc EXCEPT ![c] = "done"]
             /\ UNCHANGED <<queuesDeclared, declared, visited, queues, itSize, lost>>
    BY <2>2
  <2>3. CASE /\ \E q \in queues \ visited[c] :
                   /\ declared' = declared \cup {q}
                   /\ visited' = [visited EXCEPT ![c] = @ \cup {q}]
             /\ UNCHANGED <<queuesDeclared, pc, queues, itSize, lost>>
    BY <2>3
  <2>. QED  BY <1>4, <2>1, <2>2, <2>3 DEF IterStep
<1>5. ASSUME NEW c \in Callers, Publish(c) \/ SetFlag(c) PROVE IInv'
  BY <1>5 DEF Publish, SetFlag
<1>6. ASSUME NEW q \in Queues, DeclareQueue(q) PROVE IInv'
  BY <1>6 DEF DeclareQueue
<1>7. CASE UNCHANGED vars
  BY <1>7 DEF vars
<1>. QED  BY <1>3, <1>4, <1>5, <1>6, <1>7 DEF Next

\* Every reachable state is well typed.
THEOREM LoopTypeCorrect == Spec => []TypeOK
BY InitIInv, NextIInv, PTL DEF Spec, IInv

-----------------------------------------------------------------------------
(* The declaration that basic.publish relies on.                           *)

\* self.queues only grows, a thread reaches basic.publish only once
\* queues_declared is set (enqueue either found it set or has just set it),
\* a thread about to set the flag has declared the start-up queues (its
\* loop ended on a set that holds them), and so the flag is set only once
\* they are on the server.  A late queue added between the end of the loop
\* and the flag is not covered.
PublishInv ==
    /\ InitQueues \subseteq queues
    /\ \A c \in Callers : pc[c] = "publish" => queuesDeclared
    /\ \A c \in Callers : pc[c] = "setflag" => InitQueues \subseteq declared
    /\ queuesDeclared => InitQueues \subseteq declared
    /\ StartupPublishesKept

SInv == IInv /\ PublishInv

LEMMA InitSInv == Init => SInv
<1>. SUFFICES ASSUME Init PROVE SInv
  OBVIOUS
<1>1. IInv
  BY InitIInv
<1>2. PublishInv
  BY DEF Init, PublishInv, StartupPublishesKept
<1>. QED  BY <1>1, <1>2 DEF SInv

LEMMA NextSInv == SInv /\ [Next]_vars => SInv'
<1>. SUFFICES ASSUME SInv, [Next]_vars PROVE SInv'
  OBVIOUS
<1>1. IInv'
  BY NextIInv DEF SInv
<1>. USE LoopAssumption DEF SInv, IInv, TypeOK, LoopInv, PublishInv,
                            StartupPublishesKept
<1>2. ASSUME NEW c \in Callers, Begin(c) PROVE PublishInv'
  BY <1>2 DEF Begin
<1>3. ASSUME NEW c \in Callers, IterStep(c) PROVE PublishInv'
  <2>1. CASE /\ pc' = [pc EXCEPT ![c] = "runtime_error"]
             /\ UNCHANGED <<queuesDeclared, declared, visited, queues, itSize, lost>>
    BY <2>1
  <2>2. CASE /\ pc[c] = "iter"
             /\ visited[c] = queues
             /\ \/ pc' = [pc EXCEPT ![c] = "setflag"]
                \/ pc' = [pc EXCEPT ![c] = "done"]
             /\ UNCHANGED <<queuesDeclared, declared, visited, queues, itSize, lost>>
    <3>1. InitQueues \subseteq declared
      BY <2>2
    <3>. QED  BY <2>2, <3>1
  <2>3. CASE /\ \E q \in queues \ visited[c] :
                   /\ declared' = declared \cup {q}
                   /\ visited' = [visited EXCEPT ![c] = @ \cup {q}]
             /\ UNCHANGED <<queuesDeclared, pc, queues, itSize, lost>>
    BY <2>3
  <2>. QED  BY <1>3, <2>1, <2>2, <2>3 DEF IterStep
<1>4. ASSUME NEW c \in Callers, Publish(c) PROVE PublishInv'
  <2>1. Target[c] \in InitQueues => Target[c] \in declared
    BY <1>4 DEF Publish
  <2>. QED  BY <1>4, <2>1 DEF Publish
<1>5. ASSUME NEW q \in Queues, DeclareQueue(q) PROVE PublishInv'
  BY <1>5 DEF DeclareQueue
<1>6. CASE UNCHANGED vars
  BY <1>6 DEF vars
<1>7. ASSUME NEW c \in Callers, SetFlag(c) PROVE PublishInv'
  BY <1>7 DEF SetFlag
<1>. QED  BY <1>1, <1>2, <1>3, <1>4, <1>5, <1>6, <1>7 DEF Next

\* Whatever declare_queue calls interleave with enqueue and consume, even
\* between the end of the loop and queues_declared = True, the server never
\* drops a message whose actor was declared at start-up: the lazy
\* declaration, skipped or run on a growing set, has put its queue on the
\* server before basic.publish.
THEOREM StartupNeverLost == Spec => []StartupPublishesKept
BY InitSInv, NextSInv, PTL DEF Spec, SInv, PublishInv
=============================================================================
