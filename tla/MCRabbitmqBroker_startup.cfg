\* Delivery with publisher confirms and an actor (q2) declared late: two
\* enqueuing threads, a delayed message of the start-up actor on q1, a
\* message of the late actor, consumers on q1 and q1.DQ, two faults.
CONSTANTS
    t1 = t1  t2 = t2  c1 = c1  c2 = c2  c3 = c3  admin = admin
    q1 = q1  q2 = q2  m1 = m1  m2 = m2  m3 = m3  nomsg = nomsg  notimeout = notimeout
    Threads <- MCThreadsTwo
    Consumers <- MCConsumersOne
    Admin = admin
    Queues <- MCQueuesTwo
    LateQueues = {q2}
    Msgs <- MCMsgsDelayLate
    NoMsg = nomsg
    MsgQueue <- MCMsgQueue
    Delayed = {m2}
    Orphans = {}
    CQueue <- MCCQueueOne
    JoinQueue = q1
    ConfirmDelivery = TRUE
    MaxEnqueueAttempts = 2
    MaxFaults = 2
    MinSuccesses = 2
    NoTimeout = notimeout
    JoinTimeoutArg = notimeout
    AdminCalls = {}
SPECIFICATION Spec
INVARIANT StartupEnqueuedNotLost
PROPERTY DelayedMoveKeepsMessage
CHECK_DEADLOCK FALSE
