# Formal model of remoulade's RabbitMQ broker adapter

This directory holds TLA+ specifications of `src/remoulade/brokers/rabbitmq.py`
and of the RabbitMQ server it talks to, the TLC configurations that check them
on small instances, and TLAPS proofs of their main safety properties for every
value of the constants. `PROJECT.json` lists the components, the runs, the
mutants, the line map from each definition to the code, the findings, the
hazards and the theorems.

## The system

The source tree holds two files. `rabbitmq.py` is the Wire Adapter of the
spec (section 4.1). `middleware/middleware.py` is the base class of the
middleware chain.

A `RabbitmqBroker` instance is shared by the threads of a process. Three kinds
of thread use it:

- threads that call `enqueue`;
- consumer threads, each of which holds a `_RabbitmqConsumer` and acks or
  nacks what it is given;
- an operator or test thread that calls `flush` and `join`.

The instance keeps one connection behind `self.lock` and one channel per
thread, in thread-local state. Both are opened lazily and replaced once they
are seen to be closed. `del self.connection` and `del self.channel` discard
them.

Each logical queue `q` is three physical queues on the server: `q`, `q.DQ`
(delayed messages) and `q.XQ` (dead letters). The queues are declared lazily:
`enqueue` declares all of `self.queues` once (the `queues_declared` flag),
and `consume` declares them every time it is called. A publish to a queue the
server does not have is silently dropped. This follows from the default
exchange and the absence of the mandatory flag.

`enqueue` retries its whole try block on `AMQPConnectionError` or
`AMQPChannelError`, up to `MAX_ENQUEUE_ATTEMPTS` times. The try block covers
the declaration and the publish.

When a connection closes, the server puts back every delivery that was not
acknowledged on it. `_RabbitmqConsumer.requeue` relies on this.

## Modules

| Module | What it is |
|---|---|
| `MessageLifecycle` | The abstract specification: what `enqueue`, the consumers and `flush` promise for each message. |
| `RabbitmqBroker` | The adapter, its consumers and the server: state, actions, fairness and properties. It instantiates `MessageLifecycle` as `Lifecycle`. |
| `MCRabbitmqBroker` | Model values and small sets for TLC. |
| `RabbitmqBrokerProofs` | The type invariant, its inductive strengthening and the proof of `TypeCorrect`. |
| `RabbitmqBrokerDeliveryProofs` | The delivery invariant and the proofs of `DeliveryInvariant`, `EnqueuedNeverLost`, `StartupEnqueuedNeverLost` and `DelayedMoveSafe`. |
| `RabbitmqDeclareLoop` | The loop of `_declare_rabbitmq_queues`, one queue per step, interleaved with `declare_queue`. |
| `MCRabbitmqDeclareLoop` | Model values for it. |
| `RabbitmqDeclareLoopProofs` | The proofs of `LoopTypeCorrect` and `StartupNeverLost`. |
| `RabbitmqBrokerRefinementProofs` | The proof that `RabbitmqBroker` implements `MessageLifecycle` (`Refinement`). |

### The abstract specification

`MessageLifecycle` has the variables `status`, `executed` and `purged`, and
four actions:

- `Submit(m)`: `enqueue(m)` is called. It is rejected, or it starts sending.
- `Finish(m)`: a sending message ends `enqueued` (returned) or `raised`
  (`ConnectionClosed`).
- `Run(m)`: an actor runs a message that was handed to the broker, that is,
  one that is sending, enqueued or raised.
- `Purge(S)`: a flush removes handed messages.

It says that the outcome of `enqueue` is final, and that nothing runs or is
purged that `enqueue` was not given. It allows a raised or still-sending
message to run, because the server may have stored it although the confirm was
lost. `RabbitmqBroker` maps onto it by the identity on the three history
variables. Every other variable of the adapter is hidden.

### State and its correspondence to the code

| Variable | Code |
|---|---|
| `queues` | `self.queues` |
| `queuesDeclared` | `self.queues_declared` |
| `connUp` | `self._connection` is open |
| `chanOpen[a]` | thread `a`'s `self.state.channel` is open |
| `stale[t]` | the current connection is not the one thread `t`'s failed attempt used |
| `pc`, `emsg`, `attempts`, `err` | where thread `t` is in `enqueue`, its message, its `attempts`, the exception it caught |
| `up` | the server is running |
| `declared` | the physical queues the server has |
| `ready[pq][m]` | copies of `m` ready in physical queue `pq` |
| `consuming[w]` | consumer thread `w` has a consumer on an open channel |
| `held[w]`, `verdict[w]` | the delivery `w` holds, and whether it will ack or nack it |
| `status`, `executed`, `purged` | history: what `enqueue` returned for each message, how often an actor ran it, what a flush removed |
| `joinSt`, `joinSucc` | where `join` is, and its `successes` |

A connection is modelled by `connUp` and the `stale` flags, without ids.
At most one connection of the instance is open at a time: a new one is opened
only when the current one is `None` or closed, and the deleter closes the
connection before it forgets it. A channel is therefore open exactly when it
was opened on the current connection and that connection has not closed
since.

### The declaration loop

`RabbitmqBroker` declares `self.queues` in one step. `RabbitmqDeclareLoop`
looks at that step more closely. Each caller (`Callers`, one call each)
makes an `enqueue` or a `consume` of queue `Target[c]`, while `DeclareQueue`
adds late actors' queues to `self.queues`. Its actions are:

- `Begin(c)`: `get_actor` rejects an undeclared actor. Otherwise `enqueue`
  skips the loop once `queues_declared` is set, and `consume` always runs it.
  `for queue_name in self.queues` creates an iterator that remembers the size
  of the set (`itSize`).
- `IterStep(c)`: one `next()` of the iterator. CPython's set iterator raises
  `RuntimeError` when the size has changed, ends at the end of the live set,
  and otherwise returns a queue it has not returned yet. The three
  declarations of that queue follow. At the end of the set, `enqueue` goes
  on to `SetFlag` and `consume` to `Publish`.
- `SetFlag(c)`: `self.queues_declared = True` (L244). It is a step of its
  own: a `declare_queue` of another thread can add a queue between the
  loop's last `next()` and this assignment, and the flag is then set
  although that queue was never declared.
- `Publish(c)`: the publish, and the server drops a message to an
  undeclared queue (`lost`).
- `DeclareQueue(q)`: `self.queues.add(q)`.

Connection and channel errors in the loop are left to `RabbitmqBroker`.

### Actions

One action per operation. Each one models the whole handler.

- `DeclareQueue(q)`: `declare_queue` for an actor declared after start-up.
  It changes only `self.queues`.
- `Send(t, m)`: the start of `enqueue`. `get_actor` raises for an undeclared
  actor; otherwise the target is fixed and the first attempt begins.
- `Try(t)`: one pass through the try block of `enqueue`. Its outcomes are:
  - `TryServerDown`: `UriConnection` raises;
  - `TryPublished`: the publish goes through;
  - `TryChannelError`: the connection is obtained (`GetConnection`), then
    the server closes the channel (`AMQPChannelError`) on the declaration or
    on the publish, so the thread's channel ends closed;
  - `TryConnectionLost`: the connection drops during the publish.
    - With confirms, the message may be stored although the confirm is lost,
      or it may never arrive.
    - Without confirms, a frame that was only buffered is lost, yet `enqueue`
      returns normally.

  On the first enqueue of the instance, each outcome that reaches the server
  also declares `self.queues` (`DeclaredByEnqueue`).
- `Except(t)`: the except block. It deletes the connection or the channel,
  then counts the attempt and raises `ConnectionClosed` past the bound
  (`OutOfAttempts`).
- `Close`: `close()`. A connection the network drops has the same effect.
- `Consume(w)`: `consume` followed by `_RabbitmqConsumer.__init__`.
- `Fetch(w)`: `__next__` returns a delivery. The prefetch is 1.
- `Process(w)`: the worker's handling of a delivery. It is modelled from the
  spec because the worker is not in this tree.
  - A delay-queue delivery is enqueued on the main queue, then acked.
  - A main-queue delivery runs the actor, which then acks or nacks it.
- `Settle(w)`: `ack` or `nack`.
  - A nack dead-letters to `q.XQ`.
  - On a closed channel, ack and nack raise, and the server has already
    requeued the delivery.
- `Flush(q)`: `flush`. The connection is obtained; then either the channel
  opens and the three physical queues are purged, or the server closes the
  channel and `flush` raises. `GetChannel(a)` is `GetConnection` followed by
  opening `a`'s channel, as in the `channel` property (L92-104).
- `JoinPoll`, `JoinTimeout`: one round of `join`, and its deadline.
  `JoinTimeout` is enabled only when `HasDeadline`:
  `deadline = timeout and ...` is falsy for `timeout=None`, and also for
  `timeout=0`. The constant `JoinTimeoutArg` is the `timeout` argument, and
  `NoTimeout` stands for `None`.
- `Crash`, `Restart`: the server stops, and starts again.

## Runs

All runs use `CHECK_DEADLOCK FALSE`. The system may really stop: once every
message has been sent and settled, or every caller has made its call, nothing
is left to do. The `declare_*` runs use `MCRabbitmqDeclareLoop`, and the
others use `MCRabbitmqBroker`.

| Run | Expect | What it shows |
|---|---|---|
| `delivery` | pass | `TypeOK`, `EnqueuedNotLost` and `DeliveryInv` hold. The instance: two enqueuing threads, a plain and a delayed message, consumers on `q1` and `q1.DQ`, confirms, two attempts, and two faults of any kind. The two threads are a symmetry set (`MCThreadSymmetry`), which is sound for invariants because no definition names a thread. It has 2.59M distinct states up to that symmetry. `EnqueuedNotLost` says a message `enqueue` returned is owed: ready in a queue or held by a consumer on an open channel, or settled by an actor run or a flush. A delivery held on a closed channel does not count, since the server has requeued it. |
| `startup_delivery` | pass | `StartupEnqueuedNotLost` and `DelayedMoveKeepsMessage` hold with a late actor. The instance: two threads, `q2` declared late, a delayed message on `q1` and a plain one on `q2`, consumers on `q1` and `q1.DQ`, confirms, and two faults. `EnqueuedNotLost` fails on the same instance, because the message on `q2` can be dropped, so the restriction to start-up actors matters. It has 1.4M distinct states. |
| `topology` | pass | `QueuedEventuallySettled` holds under `FairSpec`. The instance: a late-declared `q2` with a consumer, a delayed message, no confirms, one fault, and the operator calling `join` with `timeout=1`, so that its deadline can pass. It has 210k distinct states. |
| `late_queue_loss` | violation | `EnqueuedNotLost` fails. An actor declared after the first enqueue has its queue never declared by `enqueue`, so the message is dropped although `enqueue` returned it. No fault is needed. |
| `staleclose` | violation | `RecoveryClosesOnlyFailedConnection` fails. Thread 1's connection fails and thread 2 opens a new one. Thread 1's except block then closes that new connection. |
| `lifecycle` | pass | `LifecycleSpec` holds: every step maps to a step or a stutter of `MessageLifecycle`. The instance: two threads, a late-declared queue, a consumer, confirms, two attempts, two faults and `flush`. It has 450k distinct states. |
| `joinreturns` | pass | `JoinReturns` holds under `FairSpec` with `timeout=None`: a polling `join` returns or raises. The instance has a consumer, a plain message, a delayed one, one fault and no confirms. `join` counts only `q` and `q.DQ`, so a message the consumer nacks to `q.XQ` does not keep it polling. It has 89k distinct states. |
| `joinforever` | violation | `JoinBounded` fails with `timeout=0`. The message stays ready, and `join` polls forever without ever checking the deadline. |
| `declare_flag` | pass | `StartupPublishesKept` holds on `MCRabbitmqDeclareLoop`: three enqueues (one for a late actor), a consume, and a late `declare_queue` interleaved with their loops and with the separate `SetFlag` step. The server never drops a start-up actor's message, although the flag can be set while a late queue is undeclared and the late actor's message is dropped in some runs. It has 146k distinct states. |
| `declare_runtime_error` | violation | `CallsRaiseOnlyTaxonomyErrors` fails. `declare_queue` lands while the first `enqueue` iterates, and that `enqueue` raises `RuntimeError`. It is neither retried nor turned into `ConnectionClosed`. |

What the bounds buy:

- **Two threads.** The stale-connection interleaving and two concurrent first
  enqueues need two.
- **Two faults.** A fault can happen during the retry of another fault.
- **`MaxEnqueueAttempts = 2`.** Both a successful retry and the raise past the
  bound are reachable.
- **A delayed message.** It exercises the move from `q.DQ` to `q`.

The mutants in `PROJECT.json` show that each property is sensitive to the
code it is about. TLC reports a violation for each of them:

- `DeclareRabbitmqQueuesNoDelay` drops the delay queue from the declaration.
- `DeclareRabbitmqQueuesNoMain` drops the main queue from the declaration.
  A delayed message is then acked on the delay queue and dropped on the way
  to the main queue.
- `OutOfAttemptsUncounted` compares the bound before the attempt is counted.
- `ConsumeStartupQueues` opens consumers only for the queues declared at
  start-up.
- `SendNoReturn` reports an undeclared actor but still starts the publish
  loop. A rejected message then reaches the server.
- `JoinPollCountsDeadLetters` makes `join` count `q.XQ` as well. A
  dead-lettered message, which nothing consumes, then keeps `join` polling
  for ever.
- `BeginFlagFirst` sets `queues_declared` when the loop starts instead of
  after it. A second `enqueue` then skips the loop and publishes before the
  start-up queues are declared.

## Fairness

`FairSpec` assumes weak fairness of:

- each enqueuing thread's `Try` and `Except`;
- each consumer thread's `Consume`, `Fetch`, `Process` and `Settle`;
- `Restart`;
- `JoinPoll` while `join` is polling, and `JoinTimeout`. `JoinReturns`
  rests on the first; the approved violation of `JoinBounded` shows that
  with `timeout=0` no fairness can make `join` stop.

These threads run loops that do not wait on anything but the server. The
worker restarts a consumer whose connection closed. A stopped server is
assumed to come back. A `join` that is polling stays in its loop, and
`time.monotonic()` keeps advancing, so a deadline that is checked does
eventually pass.

The following are not fair, because nothing in the code makes them happen:

- new sends, `declare_queue`, `close`, flushes, and the call of `join`;
- faults.

## Proofs

Everything in `RabbitmqBrokerProofs`, `RabbitmqBrokerDeliveryProofs`,
`RabbitmqBrokerRefinementProofs` and `RabbitmqDeclareLoopProofs` is checked
by `tlapm`.

The proofs rest only on `ConstantsAssumption`, which TLC evaluates on every
run. It says:

- `MaxEnqueueAttempts` and `MinSuccesses` are at least 1, and `MaxFaults` is
  a natural;
- `NoMsg` is not a message, `NoTimeout` is not a natural, and
  `JoinTimeoutArg` is a natural or `NoTimeout`;
- `Consumers` is finite, and the three kinds of thread are distinct;
- `MsgQueue`, `CQueue`, `LateQueues` and `JoinQueue` are in range. Every
  consumer consumes a main or a delay queue.

### TypeCorrect

`TypeCorrect` proves `Spec => []TypeOK`.

`TypeOK` alone is not inductive. The inductive invariant `IInv` adds
`MsgsOK`:

- a thread inside its retry loop holds a message;
- a consumer with a verdict holds a message.

Without `MsgsOK`, `Try` could publish `NoMsg` and `Settle` could dead-letter
it.

### DeliveryInvariant, StartupEnqueuedNeverLost and EnqueuedNeverLost

These three theorems assume `ConfirmDelivery`. Without confirms, a buffered
publish can be lost.

- `DeliveryInvariant` proves `Spec => []DeliveryInv`.
- `StartupEnqueuedNeverLost` proves `Spec => []StartupEnqueuedNotLost`: an
  enqueued message of an actor declared at start-up is never lost, for any
  set of late actors.
- `EnqueuedNeverLost` proves `Spec => []EnqueuedNotLost` for every message.
  It also assumes `LateQueues = {}`, and the `late_queue_loss` run shows that
  this assumption is needed.

The argument rests on `Owed(m)`: the server still owes `m` a run. That is
true when either:

- a copy of `m` is ready in some queue; or
- a consumer holds `m` on an open channel, and the delivery is not a
  delay-queue delivery already moved to the main queue.

`DeliveryInv` says that every enqueued message of a start-up actor is owed
or settled, together with the facts that keep this true from step to step:

- once `enqueue` has declared the topology, it covers every start-up queue.
  A late actor's queue is covered only if it was added before the first
  enqueue, which is why a late actor's message is left out;
- a consumer's queue exists on the server;
- a main-queue delivery with a verdict has run;
- a delay-queue delivery with a verdict was acked;
- an enqueuing thread holds a message of a declared actor that is still being
  sent, and no other thread holds the same message.

Each action preserves this invariant:

- A requeue on close puts every witnessing delivery back
  (`RequeuedGrows`).
- A publish only adds copies (`PublishGrows`).
- `Process` on a delay-queue delivery publishes to a declared main queue.
- A main-queue verdict implies the message has run.
- `Flush` marks purged every message it removes.

There is one lemma per action, and `NextDInv` combines them. A
`declare_queue` changes neither the start-up queues nor the messages the
invariant speaks of.

### DelayedMoveSafe

`DelayedMoveSafe` proves the action property `DelayedMoveKeepsMessage` for
every value of the constants, with or without confirms and late actors. When
the delay queue's consumer acks a delayed message, that same step adds a copy
of the message to its main queue.

The step must be `Process(w)`: no other action turns a verdict from `none`
to `ack` (`Settle` resets it). `Process` publishes to the main queue, and the
publish adds a copy when that queue is declared. The invariant `CInv` is
`IInv` plus `ConsumerQueueDeclared`: a consumer that consumes or holds a
delivery has its main queue declared. Two lemmas keep it:

- `DeclaredGrows`: no step removes a queue from the server;
- `ConsumerStarts`: only `Consume(w)` makes `w` consume or hold, and
  `Consume(w)` declares every queue of `self.queues`, `w`'s among them.

### Refinement

`Refinement` proves `Spec => LifecycleSpec` for every value of the constants,
with no assumption on `LateQueues` or `ConfirmDelivery`. It follows the usual
argument:

- `Init` maps to `Lifecycle!Init`;
- under an invariant `RInv`, every step of `Next` is a `Lifecycle!Next` step
  or leaves `status`, `executed` and `purged` unchanged;
- `RInv` is inductive.

`RInv` is `IInv` together with four facts:

- a thread inside the retry loop holds a message whose status is `sending`;
- no two such threads hold the same message;
- every message with a ready copy on the server has been handed;
- every message a consumer holds has been handed.

`Run` needs the last fact, and `Purge` needs the third. The first two make
the end of the retry loop a `Finish` of a `sending` message. The requeue on
close and every publish only add copies of messages that are already ready,
held, or being sent (`PublishSource`, `RequeuedSource`). The generic lemma
`HandedStep` turns this into the preservation of the last two facts.
`ThreadStep` covers `Try` and `Except` at once, and `ConsumerStep` covers
`Fetch`, `Process`, `Settle` and `Flush`.

### The declaration loop

`RabbitmqDeclareLoopProofs` proves two theorems from `LoopAssumption`:

- `LoopTypeCorrect`: `Spec => []TypeOK`.
- `StartupNeverLost`: `Spec => []StartupPublishesKept`.

The second uses the invariant `LoopInv`. Every queue that a caller's
iterator has returned is in `self.queues` and is declared on the server.
`declared` and `self.queues` only grow, so `LoopInv` is kept. The loop ends
only when the returned queues are the whole live set. The check of the set's
size is not needed for this. Its effect is the `RuntimeError` that
`declare_runtime_error` shows.

The flag does not cover the whole set: between the loop's end and `SetFlag`
a `declare_queue` can add a queue, so no theorem says that a set flag means
every queue of `self.queues` is declared. What does hold is weaker and is
what the start-up actors need.

`StartupNeverLost` strengthens `LoopInv` with `PublishInv`:

- `self.queues` contains the start-up queues;
- a caller about to publish found `queues_declared` set, or has just set it;
- a caller at `SetFlag` has finished a loop, so every start-up queue is
  declared;
- once the flag is set, every start-up queue is declared.

A publish for a start-up actor therefore reaches a declared queue. This
holds whichever way `enqueue` got to the publish: it skipped the loop because
the flag was set, or it ran the loop while `declare_queue` grew the set.

### What stays with TLC

Some properties are checked by TLC only:

- **Liveness.** `QueuedEventuallySettled`, `JoinReturns` and `JoinBounded` need fairness and `ENABLED`, which
  the prover cannot handle.
- **Action properties of the violation runs.** They are false, as those runs
  show. The action property that holds, `DelayedMoveKeepsMessage`, is
  proved.

## Not modelled

- **Middleware hooks.** The `emit_before` and `emit_after` calls and the
  middleware base class are no-ops as far as broker state goes.
- **Worker internals, retry policy, composition and results.** The worker's
  pool, its priority queue, pause/resume and time limits; the retry policy;
  the composition engine; and the result tracker are not in this source
  tree.
- **Abstracted data.** Priorities, message encoding, the
  `x-message-ttl`/`x-max-priority` arguments and logging are abstracted away,
  because no property tells them apart.
- **Declaration while `self.queues` changes, in the full model.**
  `RabbitmqBroker` keeps the declaration atomic. `RabbitmqDeclareLoop`
  models the loop on its own, without connection faults.
- **A fault in the middle of the declaration.** A connection or channel
  error after some of the `queue_declare` calls leaves part of the topology
  declared. The retry declares all of it again, because `queues_declared` is
  set only after the loop, so the model lets a fault hit before the whole
  declaration or after it.
- **`publish`'s return value.** With confirms, `channel.basic.publish`
  returns False when the server nacks the message (L247), and `enqueue`
  ignores it. The
  server model never nacks a publish, so this return is not modelled.
- **`_RabbitmqConsumer.close`** (L398-402). It closes the consumer's
  channel, and the server then requeues what that channel held. The model
  reaches the same server state through `Close` and a lost connection; the
  call itself is not an action.
- **What `join` waits for.** `join` polls message counts only, so it can
  return while a consumer still holds an unacked message. Its docstring says
  so, and no property claims otherwise.
- **Duplicates.** The model produces duplicate deliveries (a retry after a
  lost confirm, or a redelivery after an ack on a closed channel), but no
  property forbids them. The spec excludes exactly-once delivery.
