--------------------------- MODULE RabbitmqBroker ---------------------------
(***************************************************************************)
(* The RabbitMQ broker adapter of remoulade (src/remoulade/brokers/        *)
(* rabbitmq.py) together with the RabbitMQ server it talks to.             *)
(*                                                                         *)
(* One RabbitmqBroker instance is shared by the threads of a process:      *)
(* enqueuing threads (Threads), consumer threads (Consumers) and an        *)
(* operator thread (Admin) that calls join and flush.  The instance keeps  *)
(* one connection behind a lock and one channel per thread.  At most one   *)
(* connection of the instance is open at a time (a new one is only opened *)
(* when the current one is None or closed, and the deleter closes before   *)
(* it forgets), so a channel is open exactly when it was opened on the     *)
(* current connection and that connection has not closed since: closing   *)
(* the connection closes every channel, and the server then puts back the  *)
(* messages the consumers on it had not acknowledged.                      *)
(*                                                                         *)
(* A logical queue q is three physical queues on the server: <<q, "Q">>,   *)
(* its delay queue <<q, "DQ">> and its dead-letter queue <<q, "XQ">>.  A   *)
(* message published to a physical queue the server does not have is      *)
(* dropped (default exchange, no mandatory flag).                          *)
(***************************************************************************)
EXTENDS Naturals, FiniteSets

CONSTANTS
    Threads,            \* threads that call enqueue
    Consumers,          \* consumer threads, one per consumed physical queue
    Admin,              \* the thread that calls join and flush
    Queues,             \* logical queue names
    LateQueues,         \* queues whose actor is declared after start-up
    Msgs,               \* message ids
    NoMsg,              \* no message
    MsgQueue,           \* the queue_name of each message
    Delayed,            \* messages sent with a delay
    Orphans,            \* messages whose actor_name is not declared
    CQueue,             \* the physical queue each consumer thread consumes
    JoinQueue,          \* the queue Admin joins on
    ConfirmDelivery,    \* confirm_delivery of the broker
    MaxEnqueueAttempts, \* MAX_ENQUEUE_ATTEMPTS
    MaxFaults,          \* bound on broker crashes, dropped connections,
                        \* channel errors and close() calls
    MinSuccesses,       \* min_successes of join
    JoinTimeoutArg,     \* the timeout argument of join, in ms, or NoTimeout
    NoTimeout,          \* timeout=None
    AdminCalls          \* which of "join" and "flush" Admin calls

Kinds == {"Q", "DQ", "XQ"}
PQ == Queues \X Kinds
Actors == Threads \cup Consumers \cup {Admin}

ASSUME ConstantsAssumption ==
    /\ Threads \cap Consumers = {}
    /\ IsFiniteSet(Consumers)
    /\ Admin \notin Threads \cup Consumers
    /\ LateQueues \subseteq Queues
    /\ NoMsg \notin Msgs
    /\ MsgQueue \in [Msgs -> Queues]
    /\ Delayed \subseteq Msgs
    /\ Orphans \subseteq Msgs
    /\ CQueue \in [Consumers -> Queues \X {"Q", "DQ"}]
    /\ JoinQueue \in Queues
    /\ ConfirmDelivery \in BOOLEAN
    /\ MaxEnqueueAttempts \in Nat \ {0}
    /\ MaxFaults \in Nat
    /\ MinSuccesses \in Nat \ {0}
    /\ NoTimeout \notin Nat
    /\ JoinTimeoutArg \in Nat \cup {NoTimeout}
    /\ AdminCalls \subseteq {"join", "flush"}

VARIABLES
    queues,          \* self.queues: the queues declared on this instance
    queuesDeclared,  \* self.queues_declared
    connUp,          \* self._connection is an open connection
    chanOpen,        \* chanOpen[a]: thread a's self.state.channel is open
    up,              \* the RabbitMQ server is running
    declared,        \* physical queues that exist on the server
    ready,           \* ready[pq][m]: copies of m ready in pq
    faults,          \* disruptions so far
    pc,              \* where each enqueue call is: "idle", "try", "except"
    emsg,            \* the message of the enqueue call
    attempts,        \* the local attempts of enqueue
    err,             \* the error the last attempt raised: "none", "conn", "chan"
    stale,           \* the connection that failed has been replaced since
    consuming,       \* consuming[w]: w's consumer channel is open
    held,            \* the message w's consumer delivered and w has not settled
    verdict,         \* "none", "ack" or "nack": what w will do with held[w]
    status,          \* what the sender of each message has seen
    executed,        \* executed[m]: times an actor ran m
    purged,          \* messages a flush removed
    joinSt,          \* "idle", "polling", "returned", "timeout", "error"
    joinSucc         \* successes of join

brokerVars == <<queues, queuesDeclared, connUp, chanOpen>>
serverVars == <<up, declared, ready, faults>>
enqVars == <<pc, emsg, attempts, err, stale>>
consVars == <<consuming, held, verdict>>
histVars == <<status, executed, purged>>
joinVars == <<joinSt, joinSucc>>
vars == <<brokerVars, serverVars, enqVars, consVars, histVars, joinVars>>

-----------------------------------------------------------------------------
(* Names and topology                                                      *)

QName(q) == <<q, "Q">>
DQName(q) == <<q, "DQ">>
XQName(q) == <<q, "XQ">>

\* Mutant: a declaration that forgets the delay queue.
DeclareRabbitmqQueuesNoDelay(qs) == qs \X {"Q", "XQ"}

\* Mutant: a declaration that forgets the main queue.
DeclareRabbitmqQueuesNoMain(qs) == qs \X {"DQ", "XQ"}

\* _declare_rabbitmq_queues: for every queue name, its main, delay and
\* dead-letter queue.
DeclareRabbitmqQueues(qs) == qs \X Kinds

\* The physical queue enqueue publishes m to: the delay queue when a delay
\* is given.
Target(m) == IF m \in Delayed THEN DQName(MsgQueue[m]) ELSE QName(MsgQueue[m])

\* basic.publish through the default exchange: the server stores the message
\* if the routing key names a queue it has, and drops it otherwise.
Publish(r, pq, m, decl) ==
    IF pq \in decl THEN [r EXCEPT ![pq][m] = @ + 1] ELSE r

\* The ready queues after the server has put back the unacknowledged
\* deliveries of every consumer channel on the connection that closed.
Requeued ==
    [pq \in PQ |-> [m \in Msgs |->
        ready[pq][m] + Cardinality({w \in Consumers :
                                       consuming[w] /\ held[w] = m /\ CQueue[w] = pq})]]

\* The stale flags after the connection getter opens a connection: every
\* thread recovering from a connection error now sees a connection that is
\* not the one that failed.
StaleAfterOpen ==
    IF connUp THEN stale
    ELSE [t \in Threads |-> stale[t] \/ (pc[t] = "except" /\ err[t] = "conn")]

\* The `connection` property on a running server: the current connection,
\* opened first if it is None or closed.
GetConnection ==
    /\ up
    /\ connUp' = TRUE
    /\ stale' = StaleAfterOpen

\* The `channel` property: reuse the thread's open channel, else open a
\* channel on the connection the `connection` property returns.
GetChannel(a) ==
    /\ GetConnection
    /\ chanOpen' = [chanOpen EXCEPT ![a] = TRUE]

\* Closing the connection (connection.close(), a dropped socket or a server
\* stop): every channel on it closes and the server requeues what its
\* consumers had not acknowledged.  Other variables are left to the caller.
CloseChannels ==
    /\ connUp' = FALSE
    /\ chanOpen' = [a \in Actors |-> FALSE]
    /\ consuming' = [w \in Consumers |-> FALSE]

CloseConnection ==
    /\ CloseChannels
    /\ ready' = Requeued

-----------------------------------------------------------------------------
(* Initial state: a cold start.  The actors declared at start-up have put  *)
(* their queues in self.queues; the server has no queue yet.               *)

Init ==
    /\ queues = Queues \ LateQueues
    /\ queuesDeclared = FALSE
    /\ connUp = FALSE
    /\ chanOpen = [a \in Actors |-> FALSE]
    /\ up = TRUE
    /\ declared = {}
    /\ ready = [pq \in PQ |-> [m \in Msgs |-> 0]]
    /\ faults = 0
    /\ pc = [t \in Threads |-> "idle"]
    /\ emsg = [t \in Threads |-> NoMsg]
    /\ attempts = [t \in Threads |-> 0]
    /\ err = [t \in Threads |-> "none"]
    /\ stale = [t \in Threads |-> FALSE]
    /\ consuming = [w \in Consumers |-> FALSE]
    /\ held = [w \in Consumers |-> NoMsg]
    /\ verdict = [w \in Consumers |-> "none"]
    /\ status = [m \in Msgs |-> "unsent"]
    /\ executed = [m \in Msgs |-> 0]
    /\ purged = {}
    /\ joinSt = "idle"
    /\ joinSucc = 0

-----------------------------------------------------------------------------
(* RabbitmqBroker                                                          *)

\* declare_queue(q) for a queue whose actor is declared late.
DeclareQueue(q) ==
    /\ q \in LateQueues
    /\ q \notin queues
    /\ queues' = queues \cup {q}
    /\ UNCHANGED <<queuesDeclared, connUp, chanOpen, serverVars, enqVars,
                   consVars, histVars, joinVars>>

\* Mutant: an undeclared actor is reported but the publish loop still runs.
SendNoReturn(t, m) ==
    /\ pc[t] = "idle"
    /\ status[m] = "unsent"
    /\ status' = [status EXCEPT ![m] = IF m \in Orphans \/ MsgQueue[m] \notin queues
                                       THEN "rejected" ELSE "sending"]
    /\ pc' = [pc EXCEPT ![t] = "try"]
    /\ emsg' = [emsg EXCEPT ![t] = m]
    /\ attempts' = [attempts EXCEPT ![t] = 1]
    /\ UNCHANGED <<brokerVars, serverVars, err, stale, consVars, executed,
                   purged, joinVars>>

\* enqueue(m), up to its retry loop: get_actor raises ActorNotFound for a
\* message of an undeclared actor (an orphan, or an actor of a queue not
\* declared yet); otherwise the target queue is fixed and the first attempt
\* starts.
Send(t, m) ==
    /\ pc[t] = "idle"
    /\ status[m] = "unsent"
    /\ IF m \in Orphans \/ MsgQueue[m] \notin queues
       THEN /\ status' = [status EXCEPT ![m] = "rejected"]
            /\ UNCHANGED <<pc, emsg, attempts>>
       ELSE /\ status' = [status EXCEPT ![m] = "sending"]
            /\ pc' = [pc EXCEPT ![t] = "try"]
            /\ emsg' = [emsg EXCEPT ![t] = m]
            /\ attempts' = [attempts EXCEPT ![t] = 1]
    /\ UNCHANGED <<brokerVars, serverVars, err, stale, consVars, executed,
                   purged, joinVars>>

\* The physical queues that exist once an attempt has got past the lazy
\* declaration: on the first enqueue of the instance, the topology of every
\* queue in self.queues.
DeclaredByEnqueue ==
    IF queuesDeclared THEN declared
    ELSE declared \cup DeclareRabbitmqQueues(queues)

\* The attempt of thread t raises: AMQPConnectionError ("conn") or
\* AMQPChannelError ("chan"), caught by the except block.
Fail(t, e) ==
    /\ pc' = [pc EXCEPT ![t] = "except"]
    /\ err' = [err EXCEPT ![t] = e]
    /\ UNCHANGED <<emsg, attempts, status>>

\* The server is down: UriConnection raises AMQPConnectionError.
TryServerDown(t) ==
    /\ ~up
    /\ Fail(t, "conn")
    /\ stale' = [stale EXCEPT ![t] = FALSE]
    /\ UNCHANGED <<brokerVars, serverVars, consVars, executed, purged>>

\* The publish goes through and enqueue returns.
TryPublished(t) ==
    /\ GetChannel(t)
    /\ declared' = DeclaredByEnqueue
    /\ queuesDeclared' = TRUE
    /\ ready' = Publish(ready, Target(emsg[t]), emsg[t], DeclaredByEnqueue)
    /\ pc' = [pc EXCEPT ![t] = "idle"]
    /\ status' = [status EXCEPT ![emsg[t]] = "enqueued"]
    /\ UNCHANGED <<queues, up, faults, emsg, attempts, err, consVars,
                   executed, purged>>

\* The `channel` property opens the thread's channel (and the connection if
\* needed), and the server closes that channel: AMQPChannelError.
TryChannelError(t) ==
    /\ faults < MaxFaults
    /\ GetConnection
    /\ chanOpen' = [chanOpen EXCEPT ![t] = FALSE]
    /\ faults' = faults + 1
    /\ Fail(t, "chan")
    /\ UNCHANGED <<queues, queuesDeclared, up, declared, ready, consVars,
                   executed, purged>>

\* The connection drops while publishing, after the declarations.  With
\* confirms the broker may have stored the message while the confirm is
\* lost; the frame may never have reached the broker; without confirms
\* the publish returned once the frame was buffered, and it is lost.
TryConnectionLost(t) ==
    /\ up
    /\ faults < MaxFaults
    /\ faults' = faults + 1
    /\ CloseChannels
    /\ stale' = [s \in Threads |-> IF s = t THEN FALSE ELSE StaleAfterOpen[s]]
    /\ declared' = DeclaredByEnqueue
    /\ queuesDeclared' = TRUE
    /\ \/ /\ ConfirmDelivery
          /\ ready' = Publish(Requeued, Target(emsg[t]), emsg[t], DeclaredByEnqueue)
          /\ Fail(t, "conn")
       \/ /\ ready' = Requeued
          /\ Fail(t, "conn")
       \/ /\ ~ConfirmDelivery
          /\ ready' = Requeued
          /\ pc' = [pc EXCEPT ![t] = "idle"]
          /\ status' = [status EXCEPT ![emsg[t]] = "enqueued"]
          /\ UNCHANGED <<emsg, attempts, err>>
    /\ UNCHANGED <<queues, up, held, verdict, executed, purged>>

\* One pass through the try block of enqueue: get the channel, declare the
\* queues on the first enqueue, publish.
Try(t) ==
    /\ pc[t] = "try"
    /\ UNCHANGED joinVars
    /\ \/ TryServerDown(t)
       \/ TryPublished(t)
       \/ TryChannelError(t)
       \/ TryConnectionLost(t)

\* Mutant: the bound compared before the attempt is counted.
OutOfAttemptsUncounted(t) == attempts[t] > MaxEnqueueAttempts

\* attempts += 1; if attempts > MAX_ENQUEUE_ATTEMPTS: raise ConnectionClosed.
OutOfAttempts(t) == attempts[t] + 1 > MaxEnqueueAttempts

\* The except block of enqueue: delete the connection (for a connection
\* error) or the thread's channel, count the attempt, and raise
\* ConnectionClosed once the attempts exceed MAX_ENQUEUE_ATTEMPTS.  The
\* deleter closes whatever connection is current.
Except(t) ==
    /\ pc[t] = "except"
    /\ IF err[t] = "conn" /\ connUp
       THEN CloseConnection
       ELSE /\ chanOpen' = [chanOpen EXCEPT ![t] = FALSE]
            /\ UNCHANGED <<connUp, consuming, ready>>
    /\ err' = [err EXCEPT ![t] = "none"]
    /\ IF OutOfAttempts(t)
       THEN /\ pc' = [pc EXCEPT ![t] = "idle"]
            /\ attempts' = [attempts EXCEPT ![t] = 0]
            /\ status' = [status EXCEPT ![emsg[t]] = "raised"]
       ELSE /\ pc' = [pc EXCEPT ![t] = "try"]
            /\ attempts' = [attempts EXCEPT ![t] = @ + 1]
            /\ UNCHANGED status
    /\ UNCHANGED <<queues, queuesDeclared, up, declared, faults, emsg, stale,
                   held, verdict, executed, purged, joinVars>>

\* close(): delete the connection.  A connection the server or the network
\* drops has the same effect and is counted among the faults with it.
Close ==
    /\ faults < MaxFaults
    /\ connUp
    /\ faults' = faults + 1
    /\ CloseConnection
    /\ UNCHANGED <<queues, queuesDeclared, up, declared, enqVars, held, verdict,
                   histVars, joinVars>>

\* Mutant: consumers only for the queues declared at start-up.
ConsumeStartupQueues(w) ==
    /\ ~consuming[w]
    /\ held[w] = NoMsg
    /\ CQueue[w][1] \in Queues \ LateQueues
    /\ GetChannel(w)
    /\ declared' = declared \cup DeclareRabbitmqQueues(queues)
    /\ consuming' = [consuming EXCEPT ![w] = TRUE]
    /\ UNCHANGED <<queues, queuesDeclared, up, ready, faults, pc, emsg,
                   attempts, err, held, verdict, histVars, joinVars>>

\* consume(queue): declare every queue through the thread's channel, then
\* open the consumer's channel on the connection (basic.qos, basic.consume).
\* The worker restarts a consumer whose channel closed once it has settled
\* what it held.  On a stopped server the ConnectionClosed it raises
\* changes nothing.
Consume(w) ==
    /\ ~consuming[w]
    /\ held[w] = NoMsg
    /\ CQueue[w][1] \in queues
    /\ GetChannel(w)
    /\ declared' = declared \cup DeclareRabbitmqQueues(queues)
    /\ consuming' = [consuming EXCEPT ![w] = TRUE]
    /\ UNCHANGED <<queues, queuesDeclared, up, ready, faults, pc, emsg,
                   attempts, err, held, verdict, histVars, joinVars>>

\* next(consumer): a message the server delivered on the consumer's channel
\* (prefetch 1: one unacknowledged delivery at a time).
Fetch(w) ==
    /\ consuming[w]
    /\ held[w] = NoMsg
    /\ \E m \in Msgs :
          /\ ready[CQueue[w]][m] > 0
          /\ ready' = [ready EXCEPT ![CQueue[w]][m] = @ - 1]
          /\ held' = [held EXCEPT ![w] = m]
    /\ UNCHANGED <<brokerVars, up, declared, faults, enqVars, consuming,
                   verdict, histVars, joinVars>>

\* The worker handles a delivered message.  From a delay queue it enqueues
\* the message on the main queue once its eta has passed, then acks it; from
\* a main queue it runs the actor, which succeeds (ack) or fails with no
\* retry left (nack, dead-letter).
Process(w) ==
    /\ held[w] # NoMsg
    /\ verdict[w] = "none"
    /\ LET m == held[w]
           q == CQueue[w][1]
       IN  IF CQueue[w][2] = "DQ"
           THEN /\ up
                /\ ready' = Publish(ready, QName(q), m, declared)
                /\ verdict' = [verdict EXCEPT ![w] = "ack"]
                /\ UNCHANGED executed
           ELSE /\ executed' = [executed EXCEPT ![m] = @ + 1]
                /\ \E v \in {"ack", "nack"} : verdict' = [verdict EXCEPT ![w] = v]
                /\ UNCHANGED ready
    /\ UNCHANGED <<brokerVars, up, declared, faults, enqVars, consuming, held,
                   status, purged, joinVars>>

\* ack / nack(requeue=False) of the consumer.  A nack dead-letters the
\* message to the queue's XQ.  On a closed channel they raise
\* ConnectionClosed; the server has already requeued the delivery.
Settle(w) ==
    /\ verdict[w] # "none"
    /\ IF consuming[w] /\ verdict[w] = "nack"
       THEN ready' = Publish(ready, XQName(CQueue[w][1]), held[w], declared)
       ELSE UNCHANGED ready
    /\ held' = [held EXCEPT ![w] = NoMsg]
    /\ verdict' = [verdict EXCEPT ![w] = "none"]
    /\ UNCHANGED <<brokerVars, up, declared, faults, enqVars, consuming,
                   histVars, joinVars>>

\* flush(q) by Admin: purge q, q.DQ and q.XQ.  Purging a queue the server
\* does not have is a channel error that closes Admin's channel, opened by
\* the `channel` property a moment before.
Flush(q) ==
    /\ "flush" \in AdminCalls
    /\ GetConnection
    /\ IF QName(q) \in declared
       THEN /\ chanOpen' = [chanOpen EXCEPT ![Admin] = TRUE]
            /\ purged' = purged \cup
                   {m \in Msgs : \E k \in Kinds : ready[<<q, k>>][m] > 0}
            /\ ready' = [pq \in PQ |->
                           IF pq[1] = q THEN [m \in Msgs |-> 0] ELSE ready[pq]]
       ELSE /\ chanOpen' = [chanOpen EXCEPT ![Admin] = FALSE]
            /\ UNCHANGED <<ready, purged>>
    /\ UNCHANGED <<queues, queuesDeclared, up, declared, faults, pc, emsg,
                   attempts, err, consVars, status, executed, joinVars>>

\* Mutant: join sums all three counts of get_queue_message_counts, the
\* dead-letter queue's included.
JoinPollCountsDeadLetters ==
    /\ "join" \in AdminCalls
    /\ joinSt \in {"idle", "polling"}
    /\ \/ /\ GetChannel(Admin)
          /\ declared' = declared \cup DeclareRabbitmqQueues({JoinQueue})
          /\ LET empty == \A m \in Msgs, k \in Kinds : ready[<<JoinQueue, k>>][m] = 0
                 succ == IF empty THEN joinSucc + 1 ELSE 0
             IN  /\ joinSucc' = succ
                 /\ joinSt' = IF succ >= MinSuccesses THEN "returned" ELSE "polling"
       \/ /\ ~up
          /\ joinSt' = "error"
          /\ UNCHANGED <<chanOpen, connUp, stale, declared, joinSucc>>
    /\ UNCHANGED <<queues, queuesDeclared, up, ready, faults, pc, emsg,
                   attempts, err, consVars, histVars>>

\* One round of join(JoinQueue): get_queue_message_counts declares the three
\* queues and reads the ready counts; the main and delay counts must read
\* zero MinSuccesses times in a row.  On a stopped server the AMQP error
\* escapes join.
JoinPoll ==
    /\ "join" \in AdminCalls
    /\ joinSt \in {"idle", "polling"}
    /\ \/ /\ GetChannel(Admin)
          /\ declared' = declared \cup DeclareRabbitmqQueues({JoinQueue})
          /\ LET empty == \A m \in Msgs :
                            ready[QName(JoinQueue)][m] + ready[DQName(JoinQueue)][m] = 0
                 succ == IF empty THEN joinSucc + 1 ELSE 0
             IN  /\ joinSucc' = succ
                 /\ joinSt' = IF succ >= MinSuccesses THEN "returned" ELSE "polling"
       \/ /\ ~up
          /\ joinSt' = "error"
          /\ UNCHANGED <<chanOpen, connUp, stale, declared, joinSucc>>
    /\ UNCHANGED <<queues, queuesDeclared, up, ready, faults, pc, emsg,
                   attempts, err, consVars, histVars>>

\* deadline = timeout and time.monotonic() + timeout / 1000: a timeout of
\* None, and also of 0, leaves the deadline falsy and is never checked.
HasDeadline == JoinTimeoutArg \notin {NoTimeout, 0}

\* The deadline of join passes and the check at the top of its loop raises
\* QueueJoinTimeout.
JoinTimeout ==
    /\ joinSt = "polling"
    /\ HasDeadline
    /\ joinSt' = "timeout"
    /\ UNCHANGED <<brokerVars, serverVars, enqVars, consVars, histVars, joinSucc>>

-----------------------------------------------------------------------------
(* The environment: the server stops and restarts.                         *)

Crash ==
    /\ up
    /\ faults < MaxFaults
    /\ up' = FALSE
    /\ faults' = faults + 1
    /\ CloseConnection
    /\ UNCHANGED <<queues, queuesDeclared, declared, enqVars, held, verdict,
                   histVars, joinVars>>

Restart ==
    /\ ~up
    /\ up' = TRUE
    /\ UNCHANGED <<brokerVars, declared, ready, faults, enqVars, consVars,
                   histVars, joinVars>>

-----------------------------------------------------------------------------

Next ==
    \/ \E q \in Queues : DeclareQueue(q)
    \/ \E t \in Threads, m \in Msgs : Send(t, m)
    \/ \E t \in Threads : Try(t) \/ Except(t)
    \/ Close
    \/ \E w \in Consumers : Consume(w) \/ Fetch(w) \/ Process(w) \/ Settle(w)
    \/ \E q \in Queues : Flush(q)
    \/ JoinPoll \/ JoinTimeout
    \/ Crash \/ Restart

\* Threads are scheduled fairly, a stopped server is eventually started
\* again, a join once called keeps polling and time passes its deadline;
\* clients, the operator's calls and the faults are not fair.
Fairness ==
    /\ \A t \in Threads : WF_vars(Try(t)) /\ WF_vars(Except(t))
    /\ \A w \in Consumers : /\ WF_vars(Consume(w)) /\ WF_vars(Fetch(w))
                            /\ WF_vars(Process(w)) /\ WF_vars(Settle(w))
    /\ WF_vars(Restart)
    /\ WF_vars(joinSt = "polling" /\ JoinPoll) /\ WF_vars(JoinTimeout)

Spec == Init /\ [][Next]_vars
FairSpec == Spec /\ Fairness


-----------------------------------------------------------------------------
(* Properties                                                              *)

\* Every variable holds a value of its type.
TypeOK ==
    /\ queues \subseteq Queues
    /\ queuesDeclared \in BOOLEAN
    /\ connUp \in BOOLEAN
    /\ chanOpen \in [Actors -> BOOLEAN]
    /\ up \in BOOLEAN
    /\ declared \subseteq PQ
    /\ ready \in [PQ -> [Msgs -> Nat]]
    /\ faults \in 0..MaxFaults
    /\ pc \in [Threads -> {"idle", "try", "except"}]
    /\ emsg \in [Threads -> Msgs \cup {NoMsg}]
    /\ attempts \in [Threads -> 0..MaxEnqueueAttempts]
    /\ err \in [Threads -> {"none", "conn", "chan"}]
    /\ stale \in [Threads -> BOOLEAN]
    /\ consuming \in [Consumers -> BOOLEAN]
    /\ held \in [Consumers -> Msgs \cup {NoMsg}]
    /\ verdict \in [Consumers -> {"none", "ack", "nack"}]
    /\ status \in [Msgs -> {"unsent", "sending", "enqueued", "raised", "rejected"}]
    /\ executed \in [Msgs -> Nat]
    /\ purged \subseteq Msgs
    /\ joinSt \in {"idle", "polling", "returned", "timeout", "error"}
    /\ joinSucc \in Nat

\* m is on the server: ready in some queue, or delivered to a consumer that
\* has not settled it.
InBroker(m) ==
    \/ \E pq \in PQ : ready[pq][m] > 0
    \/ \E w \in Consumers : held[w] = m

\* m has reached an end: an actor ran it, it was dead-lettered, or a flush
\* removed it.
Settled(m) ==
    \/ executed[m] > 0
    \/ ready[XQName(MsgQueue[m])][m] > 0
    \/ m \in purged

\* The server still owes m a run: a ready copy, or a delivery on an open
\* consumer channel other than a delay-queue delivery whose copy on the
\* main queue is already published.
Owed(m) ==
    \/ \E pq \in PQ : ready[pq][m] > 0
    \/ \E w \in Consumers : /\ held[w] = m
                           /\ consuming[w]
                           /\ ~(CQueue[w][2] = "DQ" /\ verdict[w] = "ack")

\* A message whose enqueue returned is never lost: through connection and
\* channel errors, retries, server restarts, requeues of unacknowledged
\* deliveries and the move from the delay queue to the main queue, the
\* server owes it a run until an actor runs it, it is dead-lettered or
\* flushed.  A delivery held on a closed channel does not count: the
\* message survives only through the copy the server requeued.
EnqueuedNotLost ==
    \A m \in Msgs : status[m] = "enqueued" => Owed(m) \/ Settled(m)

\* The invariant EnqueuedNotLost rests on when publishes are confirmed: an
\* enqueued message of an actor declared at start-up is owed or settled;
\* once enqueue has declared the topology it covers every start-up queue;
\* a consumer's queue exists on the server; a main-queue delivery with a
\* verdict has run, a delay-queue one has been moved on; a thread in its
\* retry loop holds a message of a declared actor that is still being sent,
\* and no other thread holds it.  With every actor declared at start-up
\* (LateQueues = {}) it speaks of every message and of all of self.queues.
DeliveryInv ==
    /\ \A m \in Msgs :
          status[m] = "enqueued" /\ MsgQueue[m] \notin LateQueues => Owed(m) \/ Settled(m)
    /\ queuesDeclared => DeclareRabbitmqQueues(queues \ LateQueues) \subseteq declared
    /\ \A w \in Consumers :
          consuming[w] \/ held[w] # NoMsg => QName(CQueue[w][1]) \in declared
    /\ \A w \in Consumers :
          verdict[w] # "none" /\ CQueue[w][2] = "Q" => executed[held[w]] > 0
    /\ \A w \in Consumers :
          verdict[w] # "none" /\ CQueue[w][2] = "DQ" => verdict[w] = "ack"
    /\ \A t \in Threads :
          pc[t] # "idle" => status[emsg[t]] = "sending" /\ MsgQueue[emsg[t]] \in queues
    /\ \A t, u \in Threads :
          t # u /\ pc[t] # "idle" /\ pc[u] # "idle" => emsg[t] # emsg[u]

\* An actor declared late loses its messages (late_queue_loss), but the loss
\* stays with it: with confirms, a message of an actor declared at start-up
\* whose enqueue returned stays on the server until it is run, dead-lettered
\* or flushed, however declare_queue calls interleave with the first
\* enqueue, the consumers and the faults.
StartupEnqueuedNotLost ==
    \A m \in Msgs :
        status[m] = "enqueued" /\ MsgQueue[m] \notin LateQueues => Owed(m) \/ Settled(m)

\* Every message on the server is eventually run, dead-lettered or flushed:
\* consumers come back after every connection loss and the delay queue's
\* consumer moves every delayed message on.
QueuedEventuallySettled ==
    \A m \in Msgs : InBroker(m) ~> Settled(m)

\* The delay queue's consumer acks a delayed message only once a copy of it
\* has been added to its main queue: consume declares the main queue
\* together with the delay queue, and the declaration outlives every
\* connection loss and server restart, so moving the message on never
\* publishes it to a queue the server does not have.
DelayedMoveKeepsMessage ==
    [][\A w \in Consumers :
         CQueue[w][2] = "DQ" /\ verdict[w] = "none" /\ verdict'[w] = "ack"
            => ready'[QName(CQueue[w][1])][held[w]] = ready[QName(CQueue[w][1])][held[w]] + 1]_vars

\* The except block of enqueue discards the connection that failed: it
\* never closes a connection another thread opened after the failure.
RecoveryClosesOnlyFailedConnection ==
    [][\A t \in Threads :
         Except(t) /\ err[t] = "conn" => ~(stale[t] /\ connUp)]_vars

\* A join called with a timeout ends: it returns, raises QueueJoinTimeout
\* once the deadline has passed, or fails on an AMQP error; its docstring
\* calls timeout "the max amount of time ... to wait on this queue".
JoinBounded ==
    JoinTimeoutArg # NoTimeout =>
        (joinSt = "polling" ~> joinSt \in {"returned", "timeout", "error"})

\* A join without a timeout returns (or fails on an AMQP error) once the
\* consumers have drained the main and the delay queue: it counts only
\* those two, so a message dead-lettered to q.XQ does not hold it up, and
\* the consumers come back after every fault.
JoinReturns ==
    JoinTimeoutArg = NoTimeout =>
        (joinSt = "polling" ~> joinSt \in {"returned", "error"})

-----------------------------------------------------------------------------
(* Refinement: the adapter implements the message lifecycle.               *)

Lifecycle == INSTANCE MessageLifecycle
                 WITH Msgs <- Msgs, status <- status, executed <- executed,
                      purged <- purged

\* Through every interleaving of enqueue retries, reconnections, requeues,
\* consumers and flushes, each message goes through the lifecycle enqueue
\* promises: its outcome (rejected, enqueued, raised) is final, an actor
\* runs it only once it was handed to the broker, and flush removes only
\* handed messages.
LifecycleSpec == Lifecycle!Spec

=============================================================================
