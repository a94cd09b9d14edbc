\* An actor on q2 is declared after the first enqueue of the process:
\* enqueue does not declare q2 again, so a message to q2 is published to a
\* queue the server does not have.  No faults are needed.
CONSTANTS
    t1 = t1  t2 = t2  c1 = c1  c2 = c2  c3 = c3  admin = admin
    q1 = q1  q2 = q2  m1 = m1  m2 = m2  m3 = m3  nomsg = nomsg  notimeout = notimeout
    Threads <- MCThreadsOne
    Consumers <- MCConsumersOne
    Admin = admin
    Queues <- MCQueuesTwo
    LateQueues = {q2}
    Msgs <- MCMsgsLate
    NoMsg = nomsg
    MsgQueue <- MCMsgQueue
    Delayed = {}
    Orphans = {}
    CQueue <- MCCQueueOne
    JoinQueue = q1
    ConfirmDelivery = TRUE
    MaxEnqueueAttempts = 2
    MaxFaults = 0
    MinSuccesses = 2
    NoTimeout = notimeout
    JoinTimeoutArg = notimeout
    AdminCalls = {}
SPECIFICATION Spec
INVARIANT EnqueuedNotLost
CHECK_DEADLOCK FALSE
