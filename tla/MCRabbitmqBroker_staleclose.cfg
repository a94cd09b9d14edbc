\* Two enqueuing threads and one dropped connection: the second thread can
\* open a new connection before the first runs its except block, which then
\* closes the new connection.
CONSTANTS
    t1 = t1  t2 = t2  c1 = c1  c2 = c2  c3 = c3  admin = admin
    q1 = q1  q2 = q2  m1 = m1  m2 = m2  m3 = m3  nomsg = nomsg  notimeout = notimeout
    Threads <- MCThreadsTwo
    Consumers <- MCConsumersOne
    Admin = admin
    Queues <- MCQueuesOne
    LateQueues = {}
    Msgs <- MCMsgsTwo
    NoMsg = nomsg
    MsgQueue <- MCMsgQueue
    Delayed = {}
    Orphans = {}
    CQueue <- MCCQueueOne
    JoinQueue = q1
    ConfirmDelivery = TRUE
    MaxEnqueueAttempts = 2
    MaxFaults = 1
    MinSuccesses = 2
    NoTimeout = notimeout
    JoinTimeoutArg = notimeout
    AdminCalls = {}
SPECIFICATION Spec
PROPERTY RecoveryClosesOnlyFailedConnection
CHECK_DEADLOCK FALSE
