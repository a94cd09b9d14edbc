\* Two enqueuing threads, a queue q2 declared late (so m3 may be rejected),
\* two faults and flushes: every behaviour of the adapter is a behaviour of
\* the message lifecycle under the identity mapping of status, executed
\* and purged.
CONSTANTS
    t1 = t1  t2 = t2  c1 = c1  c2 = c2  c3 = c3  admin = admin
    q1 = q1  q2 = q2  m1 = m1  m2 = m2  m3 = m3  nomsg = nomsg  notimeout = notimeout
    Threads <- MCThreadsTwo
    Consumers <- MCConsumersOne
    Admin = admin
    Queues <- MCQueuesTwo
    LateQueues = {q2}
    Msgs <- MCMsgsLate
    NoMsg = nomsg
    MsgQueue <- MCMsgQueue
    Delayed = {}
    Orphans = {}
    CQueue <- MCCQueueOne
    JoinQueue = q1
    ConfirmDelivery = TRUE
    MaxEnqueueAttempts = 2
    MaxFaults = 2
    MinSuccesses = 2
    NoTimeout = notimeout
    JoinTimeoutArg = notimeout
    AdminCalls = {"flush"}
SPECIFICATION Spec
PROPERTY LifecycleSpec
CHECK_DEADLOCK FALSE
