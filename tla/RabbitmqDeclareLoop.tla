------------------------- MODULE RabbitmqDeclareLoop -------------------------
(***************************************************************************)
(* The lazy declaration of src/remoulade/brokers/rabbitmq.py, one queue    *)
(* at a time: _declare_rabbitmq_queues iterates over the set self.queues   *)
(* while other threads of the process may call declare_queue, which adds   *)
(* to that set.  RabbitmqBroker declares the whole set in one step; this   *)
(* module refines that step into the iteration, to see what a concurrent   *)
(* declare_queue does to it.                                               *)
(*                                                                         *)
(* Each caller makes one call, enqueue or consume, for a message or a      *)
(* consumer of queue Target[c].  A Python set iterator raises RuntimeError *)
(* on its next step once the set has changed size; neither enqueue nor     *)
(* consume catches it.  Connection and channel errors are left to          *)
(* RabbitmqBroker.                                                         *)
(***************************************************************************)
EXTENDS Naturals, FiniteSets

CONSTANTS
    Queues,        \* queue names
    InitQueues,    \* the queues of the actors declared at start-up
    LateQueues,    \* queues whose actor is declared while callers run
    Callers,       \* threads that each call enqueue or consume once
    Calls,         \* Calls[c]: "enqueue" or "consume"
    Target         \* Target[c]: the queue of c's message or consumer

ASSUME LoopAssumption ==
    /\ InitQueues \subseteq Queues /\ LateQueues \subseteq Queues
    /\ IsFiniteSet(Queues)
    /\ Calls \in [Callers -> {"enqueue", "consume"}]
    /\ Target \in [Callers -> Queues]

VARIABLES
    queues,          \* self.queues
    queuesDeclared,  \* self.queues_declared
    declared,        \* queue names whose q, q.DQ and q.XQ the server has
    pc,              \* where each caller is
    visited,         \* the names its iterator has returned so far
    itSize,          \* len(self.queues) when its iterator was created
    lost             \* callers whose message enqueue returned but the server dropped

vars == <<queues, queuesDeclared, declared, pc, visited, itSize, lost>>

CallerStates == {"start", "iter", "setflag", "publish", "done", "rejected", "runtime_error"}

TypeOK ==
    /\ queues \subseteq Queues
    /\ queuesDeclared \in BOOLEAN
    /\ declared \subseteq Queues
    /\ pc \in [Callers -> CallerStates]
    /\ visited \in [Callers -> SUBSET Queues]
    /\ itSize \in [Callers -> Nat]
    /\ lost \subseteq Callers

Init ==
    /\ queues = InitQueues
    /\ queuesDeclared = FALSE
    /\ declared = {}
    /\ pc = [c \in Callers |-> "start"]
    /\ visited = [c \in Callers |-> {}]
    /\ itSize = [c \in Callers |-> 0]
    /\ lost = {}

\* Mutant: enqueue sets queues_declared before it runs the loop.
BeginFlagFirst(c) ==
    /\ pc[c] = "start"
    /\ IF Calls[c] = "enqueue" /\ Target[c] \notin queues
       THEN /\ pc' = [pc EXCEPT ![c] = "rejected"]
            /\ UNCHANGED <<queuesDeclared, visited, itSize>>
       ELSE IF Calls[c] = "enqueue" /\ queuesDeclared
       THEN /\ pc' = [pc EXCEPT ![c] = "publish"]
            /\ UNCHANGED <<queuesDeclared, visited, itSize>>
       ELSE /\ pc' = [pc EXCEPT ![c] = "iter"]
            /\ queuesDeclared' = (queuesDeclared \/ Calls[c] = "enqueue")
            /\ visited' = [visited EXCEPT ![c] = {}]
            /\ itSize' = [itSize EXCEPT ![c] = Cardinality(queues)]
    /\ UNCHANGED <<queues, declared, lost>>

\* The call starts.  enqueue's get_actor raises ActorNotFound for an actor
\* not declared yet; enqueue skips the declaration once queues_declared is
\* set; consume always declares.  `for queue_name in self.queues` creates
\* the iterator, which remembers the size of the set.
Begin(c) ==
    /\ pc[c] = "start"
    /\ IF Calls[c] = "enqueue" /\ Target[c] \notin queues
       THEN /\ pc' = [pc EXCEPT ![c] = "rejected"]
            /\ UNCHANGED <<visited, itSize>>
       ELSE IF Calls[c] = "enqueue" /\ queuesDeclared
       THEN /\ pc' = [pc EXCEPT ![c] = "publish"]
            /\ UNCHANGED <<visited, itSize>>
       ELSE /\ pc' = [pc EXCEPT ![c] = "iter"]
            /\ visited' = [visited EXCEPT ![c] = {}]
            /\ itSize' = [itSize EXCEPT ![c] = Cardinality(queues)]
    /\ UNCHANGED <<queues, queuesDeclared, declared, lost>>

\* One step of the loop of _declare_rabbitmq_queues.  The iterator first
\* checks the size of the set and raises RuntimeError if it changed; at the
\* end of the set the loop ends (enqueue goes on to set queues_declared,
\* consume returns the consumer); otherwise it yields a queue not yet
\* returned, in an order the set decides, and the three declarations run.
IterStep(c) ==
    /\ pc[c] = "iter"
    /\ \/ /\ Cardinality(queues) # itSize[c]
          /\ pc' = [pc EXCEPT ![c] = "runtime_error"]
          /\ UNCHANGED <<queuesDeclared, declared, visited>>
       \/ /\ Cardinality(queues) = itSize[c]
          /\ visited[c] = queues
          /\ pc' = [pc EXCEPT ![c] = IF Calls[c] = "enqueue" THEN "setflag" ELSE "done"]
          /\ UNCHANGED <<declared, visited>>
       \/ /\ Cardinality(queues) = itSize[c]
          /\ \E q \in queues \ visited[c] :
                /\ declared' = declared \cup {q}
                /\ visited' = [visited EXCEPT ![c] = @ \cup {q}]
          /\ UNCHANGED pc
    /\ UNCHANGED <<queues, queuesDeclared, itSize, lost>>

\* self.queues_declared = True, the statement after the loop in enqueue.
SetFlag(c) ==
    /\ pc[c] = "setflag"
    /\ queuesDeclared' = TRUE
    /\ pc' = [pc EXCEPT ![c] = "publish"]
    /\ UNCHANGED <<queues, declared, visited, itSize, lost>>

\* basic.publish to Target[c] through the default exchange, and enqueue
\* returns the message; the server drops it if it has no such queue.
Publish(c) ==
    /\ pc[c] = "publish"
    /\ pc' = [pc EXCEPT ![c] = "done"]
    /\ lost' = IF Target[c] \in declared THEN lost ELSE lost \cup {c}
    /\ UNCHANGED <<queues, queuesDeclared, declared, visited, itSize>>

\* declare_queue(q) for an actor declared late: self.queues.add(q).
DeclareQueue(q) ==
    /\ q \in LateQueues
    /\ q \notin queues
    /\ queues' = queues \cup {q}
    /\ UNCHANGED <<queuesDeclared, declared, pc, visited, itSize, lost>>

Next ==
    \/ \E c \in Callers : Begin(c) \/ IterStep(c) \/ SetFlag(c) \/ Publish(c)
    \/ \E q \in Queues : DeclareQueue(q)

Spec == Init /\ [][Next]_vars

-----------------------------------------------------------------------------
(* Properties.                                                             *)

\* The server never drops a message whose actor was declared at start-up:
\* whether enqueue skips the declaration on queues_declared or runs the loop
\* while declare_queue grows the set, the message's queue is on the server
\* by the time basic.publish runs.
StartupPublishesKept == \A c \in lost : Target[c] \notin InitQueues

\* enqueue and consume end normally or with the errors of the spec's
\* taxonomy (ConnectionClosed, ActorNotFound); the spec knows no other
\* error for them.
CallsRaiseOnlyTaxonomyErrors == \A c \in Callers : pc[c] # "runtime_error"

=============================================================================
